---- MODULE Spec2Model ----
(***************************************************************************)
(* Model of the multi-layer vectorization pipeline: ColorQuantizer,         *)
(* SimplePathTracer (potrace.ts) and MultiLayerConverter.                  *)
(*                                                                         *)
(* Spec is one conversion, convertImageToMultiLayerSVG, step by step.      *)
(* SpecHook is the useImageConverter hook: its images and stats state, the *)
(* processImage calls in flight and the progress timers they started.      *)
(* SpecQuantize, SpecMask and SpecTrace are single calls of quantizeColors,*)
(* createColorMask and traceBitmapToPaths on inputs drawn from small sets. *)
(*                                                                         *)
(* Representation choices:                                                 *)
(*  - ImageData is [width, height, data] where data is the sequence of     *)
(*    pixels in row-major order, each pixel the quadruple <<r,g,b,a>> of   *)
(*    the four bytes the code reads at data[4k .. 4k+3].                   *)
(*  - A hex colour string "#rrggbb" is the sequence of its six hex digits, *)
(*    each a number 0..15 ("#ff0000" is <<15,15,0,0,0,0>>).                *)
(*  - An SVG path string is the record of its d attribute's commands; a    *)
(*    newline-joined pathData is the sequence of its lines.                *)
(***************************************************************************)
EXTENDS Integers, Sequences, FiniteSets, TLC

VARIABLES
  pc,          \* where the conversion (or the call under test) stands
  img,         \* the decoded source image: naturalWidth, naturalHeight, pixels
  canvas,      \* the canvas of convertImageToMultiLayerSVG: width, height
  imageData,   \* the pixel buffer read back from the canvas
  settings,    \* ConversionSettings
  env,         \* what the platform did: image load, 2d context
  palette,     \* ColorPalette of the quantizer
  layerIdx,    \* the loop variable i of the layer loop
  layers,      \* LayerInfo[] collected so far
  threw,       \* the palette indices whose layer processing threw
  mask,        \* the mask of the layer processed last
  bitmap,      \* its bitmap
  pathStrings, \* its traced path strings
  result,      \* the ConversionResult the promise resolved with
  error,       \* the message the promise rejected with
  call,        \* the arguments of a single call under test
  cutBuckets,  \* the bucket list of medianCut while it splits
  prev,        \* what the earlier call, step or conversion on the same objects left
  images,      \* useImageConverter: the images state, UploadedImage[]
  stats,       \* useImageConverter: the stats state, ProcessingStats
  calls,       \* the processImage calls made so far, with what each closed over;
               \* the field toggled is history: the last toggle of its image
               \* while the call was in flight, read by the properties only
  successTimes \* history: the processing times of the successful conversions
               \* since the last clearAllImages, read by the properties only

vars == <<pc, img, canvas, imageData, settings, env, palette, layerIdx, layers,
          threw, mask, bitmap, pathStrings, result, error, call, cutBuckets, prev,
          images, stats, calls, successTimes>>

\* The state of the pipeline and of the single calls; the state of the hook.
pipelineVars == <<pc, img, canvas, imageData, settings, env, palette, layerIdx, layers,
                  threw, mask, bitmap, pathStrings, result, error, call, cutBuckets, prev>>
hookVars == <<images, stats, calls, successTimes>>

(***************************************************************************)
(* Bounds of the model.                                                    *)
(***************************************************************************)
MaxCells == 4
MaxColors == 3
MaxMaskCells == 2
MaxBitmapCells == 9
MaxTraceNoise == 3
MaxQuantCells == 4

(***************************************************************************)
(* Program constants.                                                      *)
(***************************************************************************)
colorTolerance == 15
OpaqueAlpha == 128

Min(a, b) == IF a < b THEN a ELSE b
Max(a, b) == IF a > b THEN a ELSE b

\* Math.round(n / d) for n >= 0, d > 0: halves round up.
Round(n, d) == (2 * n + d) \div (2 * d)

\* Number.toString(16).padStart(2, '0') of a byte: its two hex digits.
ToHex2(v) == IF v < 16 THEN <<0, v>> ELSE <<v \div 16, v % 16>>

\* parseInt(hex.substr(k, 2), 16): the value of two hex digits.
ParseHex2(hex, k) == hex[k + 1] * 16 + hex[k + 2]

\* `#${r}${g}${b}` of a QuantizedPixel.
ColorString(c) == ToHex2(c.r) \o ToHex2(c.g) \o ToHex2(c.b)

(***************************************************************************)
(* ColorQuantizer.quantizeColors: the histogram of opaque pixels.  A Map   *)
(* keeps its keys in insertion order, the order of first occurrence.       *)
(***************************************************************************)
\* Variant: colorMap.set(colorKey, 1), the count never grows.
RECURSIVE MapSet_Overwrites(_, _)
MapSet_Overwrites(map, px) ==
  IF map = <<>> THEN << [r |-> px[1], g |-> px[2], b |-> px[3], count |-> 1] >>
  ELSE IF Head(map).r = px[1] /\ Head(map).g = px[2] /\ Head(map).b = px[3]
       THEN << [Head(map) EXCEPT !.count = 1] >> \o Tail(map)
       ELSE << Head(map) >> \o MapSet_Overwrites(Tail(map), px)

RECURSIVE MapSet(_, _)
MapSet(map, px) ==
  IF map = <<>> THEN << [r |-> px[1], g |-> px[2], b |-> px[3], count |-> 1] >>
  ELSE IF Head(map).r = px[1] /\ Head(map).g = px[2] /\ Head(map).b = px[3]
       THEN << [Head(map) EXCEPT !.count = @ + 1] >> \o Tail(map)
       ELSE << Head(map) >> \o MapSet(Tail(map), px)

\* Variant: the alpha test is missing, transparent pixels are counted too.
RECURSIVE BuildColorMap_CountsTransparent(_, _)
BuildColorMap_CountsTransparent(data, map) ==
  IF data = <<>> THEN map
  ELSE BuildColorMap_CountsTransparent(Tail(data), MapSet(map, Head(data)))

RECURSIVE BuildColorMap(_, _)
BuildColorMap(data, map) ==
  IF data = <<>> THEN map
  ELSE IF Head(data)[4] < OpaqueAlpha
       THEN BuildColorMap(Tail(data), map)
       ELSE BuildColorMap(Tail(data), MapSet(map, Head(data)))

\* The sort key of a QuantizedPixel along a channel.
Key(c, ch) ==
  CASE ch = "r" -> c.r
    [] ch = "g" -> c.g
    [] ch = "b" -> c.b
    [] ch = "countDesc" -> 0 - c.count

\* Array.prototype.sort is stable: x goes after every element not greater.
RECURSIVE InsertSorted(_, _, _)
InsertSorted(sorted, x, ch) ==
  IF sorted = <<>> THEN << x >>
  ELSE IF Key(Head(sorted), ch) <= Key(x, ch)
       THEN << Head(sorted) >> \o InsertSorted(Tail(sorted), x, ch)
       ELSE << x >> \o sorted

RECURSIVE SortInto(_, _, _)
SortInto(todo, sorted, ch) ==
  IF todo = <<>> THEN sorted
  ELSE SortInto(Tail(todo), InsertSorted(sorted, Head(todo), ch), ch)

StableSort(colors, ch) == SortInto(colors, <<>>, ch)

SeqMin(colors, ch) ==
  CHOOSE v \in {Key(colors[k], ch) : k \in 1..Len(colors)} :
    \A k \in 1..Len(colors) : v <= Key(colors[k], ch)
SeqMax(colors, ch) ==
  CHOOSE v \in {Key(colors[k], ch) : k \in 1..Len(colors)} :
    \A k \in 1..Len(colors) : v >= Key(colors[k], ch)
ChannelRange(colors, ch) == SeqMax(colors, ch) - SeqMin(colors, ch)

getColorRange(colors) ==
  IF Len(colors) = 0 THEN 0
  ELSE Max(ChannelRange(colors, "r"),
           Max(ChannelRange(colors, "g"), ChannelRange(colors, "b")))

\* Variant: the cut is at Math.ceil(colors.length / 2).
splitBucket_CeilMid(colors) ==
  IF Len(colors) <= 1 THEN << colors >>
  ELSE LET rRange == ChannelRange(colors, "r")
           gRange == ChannelRange(colors, "g")
           bRange == ChannelRange(colors, "b")
           ch == IF rRange >= gRange /\ rRange >= bRange THEN "r"
                 ELSE IF gRange >= bRange THEN "g" ELSE "b"
           sorted == StableSort(colors, ch)
           mid == (Len(colors) + 1) \div 2
       IN << SubSeq(sorted, 1, mid), SubSeq(sorted, mid + 1, Len(sorted)) >>

splitBucket(colors) ==
  IF Len(colors) <= 1 THEN << colors >>
  ELSE LET rRange == ChannelRange(colors, "r")
           gRange == ChannelRange(colors, "g")
           bRange == ChannelRange(colors, "b")
           ch == IF rRange >= gRange /\ rRange >= bRange THEN "r"
                 ELSE IF gRange >= bRange THEN "g" ELSE "b"
           sorted == StableSort(colors, ch)
           mid == Len(colors) \div 2
       IN << SubSeq(sorted, 1, mid), SubSeq(sorted, mid + 1, Len(sorted)) >>

RECURSIVE SumOver(_, _)
SumOver(colors, ch) ==
  IF colors = <<>> THEN 0
  ELSE (IF ch = "count" THEN Head(colors).count
        ELSE Key(Head(colors), ch) * Head(colors).count)
       + SumOver(Tail(colors), ch)

\* Variant: the plain mean of the member colours, count left out of the sums
\* of the channels.
getAverageColor_Unweighted(colors) ==
  LET totalCount == SumOver(colors, "count")
      Plain(ch) == SumOver([k \in 1..Len(colors) |-> [colors[k] EXCEPT !.count = 1]], ch)
  IN [r |-> Round(Plain("r"), Len(colors)),
      g |-> Round(Plain("g"), Len(colors)),
      b |-> Round(Plain("b"), Len(colors)),
      count |-> totalCount]

\* Variant: count is bucket.length, the number of colours of the bucket, in
\* place of the sum of their counts.
getAverageColor_CountsColors(colors) ==
  LET totalCount == SumOver(colors, "count")
  IN [r |-> Round(SumOver(colors, "r"), totalCount),
      g |-> Round(SumOver(colors, "g"), totalCount),
      b |-> Round(SumOver(colors, "b"), totalCount),
      count |-> Len(colors)]

getAverageColor(colors) ==
  LET totalCount == SumOver(colors, "count")
  IN [r |-> Round(SumOver(colors, "r"), totalCount),
      g |-> Round(SumOver(colors, "g"), totalCount),
      b |-> Round(SumOver(colors, "b"), totalCount),
      count |-> totalCount]

\* The scan for the bucket to split: the first bucket of strictly largest range.
\* Variant: the comparison is range >= largestRange, the last of the buckets
\* that tie is chosen.
RECURSIVE LargestBucket_LastOfTies(_, _, _, _)
LargestBucket_LastOfTies(buckets, k, largestBucket, largestRange) ==
  IF k > Len(buckets) THEN largestBucket
  ELSE LET range == getColorRange(buckets[k])
       IN IF range >= largestRange
          THEN LargestBucket_LastOfTies(buckets, k + 1, k, range)
          ELSE LargestBucket_LastOfTies(buckets, k + 1, largestBucket, largestRange)

RECURSIVE LargestBucket(_, _, _, _)
LargestBucket(buckets, k, largestBucket, largestRange) ==
  IF k > Len(buckets) THEN largestBucket
  ELSE LET range == getColorRange(buckets[k])
       IN IF range > largestRange
          THEN LargestBucket(buckets, k + 1, k, range)
          ELSE LargestBucket(buckets, k + 1, largestBucket, largestRange)

\* Variant: only the last of the split buckets is spliced in,
\* buckets.splice(largestBucket, 1, splitBuckets[splitBuckets.length - 1]).
Splice_KeepsOneHalf(buckets, at, repl) ==
  SubSeq(buckets, 1, at - 1) \o << repl[Len(repl)] >> \o SubSeq(buckets, at + 1, Len(buckets))

\* buckets.splice(largestBucket, 1, ...splitBuckets)
Splice(buckets, at, repl) ==
  SubSeq(buckets, 1, at - 1) \o repl \o SubSeq(buckets, at + 1, Len(buckets))

\* Variant: the loop condition is buckets.length <= maxColors.
RECURSIVE SplitLoop_OneTooMany(_, _)
SplitLoop_OneTooMany(buckets, maxColors) ==
  IF Len(buckets) > maxColors THEN buckets
  ELSE LET at == LargestBucket(buckets, 1, 1, 0)
       IN SplitLoop_OneTooMany(Splice(buckets, at, splitBucket(buckets[at])), maxColors)

RECURSIVE SplitLoop(_, _)
SplitLoop(buckets, maxColors) ==
  IF Len(buckets) >= maxColors THEN buckets
  ELSE LET at == LargestBucket(buckets, 1, 1, 0)
       IN SplitLoop(Splice(buckets, at, splitBucket(buckets[at])), maxColors)

medianCut(colors, maxColors) ==
  IF Len(colors) <= maxColors THEN colors
  ELSE LET buckets == SplitLoop(<< colors >>, maxColors)
       IN [k \in 1..Len(buckets) |-> getAverageColor(buckets[k])]

\* The ColorPalette of the quantized colours: the hex strings and the counts.
ToPalette(quantizedColors) ==
  [colors |-> [k \in 1..Len(quantizedColors) |-> ColorString(quantizedColors[k])],
   counts |-> [k \in 1..Len(quantizedColors) |-> quantizedColors[k].count]]

quantizeColors(image, maxColors) ==
  LET colorArray == StableSort(BuildColorMap(image.data, <<>>), "countDesc")
      quantizedColors == medianCut(colorArray, maxColors)
  IN ToPalette(quantizedColors)

(***************************************************************************)
(* ColorQuantizer.createColorMask                                          *)
(***************************************************************************)
Black == <<0, 0, 0, 255>>
White == <<255, 255, 255, 255>>

Sq(x) == x * x

\* Variant: colorDistance < this.colorTolerance.
IsMatch_Strict(r, g, b, targetR, targetG, targetB) ==
  Sq(r - targetR) + Sq(g - targetG) + Sq(b - targetB) < Sq(colorTolerance)

\* Math.sqrt(d2) <= colorTolerance, for an integer d2 >= 0.
IsMatch(r, g, b, targetR, targetG, targetB) ==
  Sq(r - targetR) + Sq(g - targetG) + Sq(b - targetB) <= Sq(colorTolerance)

\* Variant: a transparent pixel is skipped without being painted, and keeps
\* the transparent black createImageData starts with.
MaskPixel_SkipsTransparent(px, targetR, targetG, targetB, invert) ==
  IF px[4] < OpaqueAlpha THEN <<0, 0, 0, 0>>
  ELSE LET isMatch == Sq(px[1] - targetR) + Sq(px[2] - targetG) + Sq(px[3] - targetB)
                        <= Sq(colorTolerance)
           shouldBeBlack == IF invert THEN ~isMatch ELSE isMatch
       IN IF shouldBeBlack THEN Black ELSE White

\* Variant: the cutoff is a <= 128, a pixel of alpha exactly 128 is painted
\* white although the quantizer counts it.
MaskPixel_CutoffInclusive(px, targetR, targetG, targetB, invert) ==
  IF px[4] <= OpaqueAlpha THEN White
  ELSE LET isMatch == IsMatch(px[1], px[2], px[3], targetR, targetG, targetB)
           shouldBeBlack == IF invert THEN ~isMatch ELSE isMatch
       IN IF shouldBeBlack THEN Black ELSE White

MaskPixel(px, targetR, targetG, targetB, invert) ==
  IF px[4] < OpaqueAlpha THEN White
  ELSE LET isMatch == IsMatch(px[1], px[2], px[3], targetR, targetG, targetB)
           shouldBeBlack == IF invert THEN ~isMatch ELSE isMatch
       IN IF shouldBeBlack THEN Black ELSE White

createColorMask(image, targetColor, invert) ==
  LET targetR == ParseHex2(targetColor, 0)
      targetG == ParseHex2(targetColor, 2)
      targetB == ParseHex2(targetColor, 4)
  IN [width |-> image.width,
      height |-> image.height,
      data |-> [k \in 1..Len(image.data) |->
                  MaskPixel(image.data[k], targetR, targetG, targetB, invert)]]

(***************************************************************************)
(* MultiLayerConverter.imageDataToBitmap: 1 where the red byte is 0.       *)
(***************************************************************************)
imageDataToBitmap(image) ==
  [k \in 1..(image.width * image.height) |-> IF image.data[k][1] = 0 THEN 1 ELSE 0]

(***************************************************************************)
(* SimplePathTracer.  A bitmap is indexed from 1 here: cell idx of the     *)
(* code (y * width + x) is bm[idx + 1].  visited is the set of the idx     *)
(* whose entry of the visited array is true.                               *)
(***************************************************************************)
Pt(x, y) == [x |-> x, y |-> y]

\* The loop of floodFill: the stack is popped from its end.
\* Variant: the fill also spreads to the four diagonal neighbours.
RECURSIVE FloodLoop_Diagonals(_, _, _, _, _, _)
FloodLoop_Diagonals(bm, width, height, stack, visited, component) ==
  IF stack = <<>> THEN [component |-> component, visited |-> visited]
  ELSE LET p == stack[Len(stack)]
           rest == SubSeq(stack, 1, Len(stack) - 1)
           idx == p.y * width + p.x
       IN IF p.x < 0 \/ p.x >= width \/ p.y < 0 \/ p.y >= height
             \/ idx \in visited \/ bm[idx + 1] # 1
          THEN FloodLoop_Diagonals(bm, width, height, rest, visited, component)
          ELSE FloodLoop_Diagonals(bm, width, height,
                         rest \o << Pt(p.x + 1, p.y), Pt(p.x - 1, p.y),
                                    Pt(p.x, p.y + 1), Pt(p.x, p.y - 1),
                                    Pt(p.x + 1, p.y + 1), Pt(p.x - 1, p.y - 1),
                                    Pt(p.x - 1, p.y + 1), Pt(p.x + 1, p.y - 1) >>,
                         visited \cup {idx},
                         Append(component, p))

RECURSIVE FloodLoop(_, _, _, _, _, _)
FloodLoop(bm, width, height, stack, visited, component) ==
  IF stack = <<>> THEN [component |-> component, visited |-> visited]
  ELSE LET p == stack[Len(stack)]
           rest == SubSeq(stack, 1, Len(stack) - 1)
           idx == p.y * width + p.x
       IN IF p.x < 0 \/ p.x >= width \/ p.y < 0 \/ p.y >= height
             \/ idx \in visited \/ bm[idx + 1] # 1
          THEN FloodLoop(bm, width, height, rest, visited, component)
          ELSE FloodLoop(bm, width, height,
                         rest \o << Pt(p.x + 1, p.y), Pt(p.x - 1, p.y),
                                    Pt(p.x, p.y + 1), Pt(p.x, p.y - 1) >>,
                         visited \cup {idx},
                         Append(component, p))

floodFill(bm, width, height, startX, startY, visited) ==
  FloodLoop(bm, width, height, << Pt(startX, startY) >>, visited, <<>>)

CoordMin(component, f) ==
  CHOOSE v \in {component[k][f] : k \in 1..Len(component)} :
    \A k \in 1..Len(component) : v <= component[k][f]
CoordMax(component, f) ==
  CHOOSE v \in {component[k][f] : k \in 1..Len(component)} :
    \A k \in 1..Len(component) : v >= component[k][f]

\* Variant: maxX is computed with Math.min.
componentToPath_MinForMax(component) ==
  IF Len(component) = 0 THEN <<>>
  ELSE LET minX == CoordMin(component, "x")
           maxX == CoordMin(component, "x")
           minY == CoordMin(component, "y")
           maxY == CoordMax(component, "y")
       IN << <<"M", minX, minY>>, <<"L", maxX, minY>>, <<"L", maxX, maxY>>,
             <<"L", minX, maxY>>, <<"Z">> >>

\* Variant: the box runs along the outer edges of the pixels, to maxX + 1 and
\* maxY + 1.
componentToPath_PixelEdges(component) ==
  IF Len(component) = 0 THEN <<>>
  ELSE LET minX == CoordMin(component, "x")
           maxX == CoordMax(component, "x") + 1
           minY == CoordMin(component, "y")
           maxY == CoordMax(component, "y") + 1
       IN << <<"M", minX, minY>>, <<"L", maxX, minY>>, <<"L", maxX, maxY>>,
             <<"L", minX, maxY>>, <<"Z">> >>

\* The d attribute `M minX minY L maxX minY L maxX maxY L minX maxY Z`;
\* the empty string is <<>>.
componentToPath(component) ==
  IF Len(component) = 0 THEN <<>>
  ELSE LET minX == CoordMin(component, "x")
           maxX == CoordMax(component, "x")
           minY == CoordMin(component, "y")
           maxY == CoordMax(component, "y")
       IN << <<"M", minX, minY>>, <<"L", maxX, minY>>, <<"L", maxX, maxY>>,
             <<"L", minX, maxY>>, <<"Z">> >>

\* `<path d="${path}"/>`
PathElement(path) == [tag |-> "path", d |-> path]

\* Variant: component.length > this.noiseSize.
KeepComponent_Strict(component, noiseSize) == Len(component) > noiseSize

\* Whether a component passes the noise filter.
KeepComponent(component, noiseSize) == Len(component) >= noiseSize

\* Variant: paths.unshift, the path of a component goes in front of the
\* paths of the components found before it.
RECURSIVE ScanLoop_Prepends(_, _, _, _, _, _, _)
ScanLoop_Prepends(bm, width, height, noiseSize, idx, visited, paths) ==
  IF idx >= width * height THEN paths
  ELSE IF idx \notin visited /\ bm[idx + 1] = 1
       THEN LET ff == floodFill(bm, width, height, idx % width, idx \div width, visited)
                path == componentToPath(ff.component)
            IN ScanLoop_Prepends(bm, width, height, noiseSize, idx + 1, ff.visited,
                                 IF KeepComponent(ff.component, noiseSize) /\ path # <<>>
                                 THEN << PathElement(path) >> \o paths
                                 ELSE paths)
       ELSE ScanLoop_Prepends(bm, width, height, noiseSize, idx + 1, visited, paths)

\* The row-major scan of traceBitmapToPaths from cell idx on.
RECURSIVE ScanLoop(_, _, _, _, _, _, _)
ScanLoop(bm, width, height, noiseSize, idx, visited, paths) ==
  IF idx >= width * height THEN paths
  ELSE IF idx \notin visited /\ bm[idx + 1] = 1
       THEN LET ff == floodFill(bm, width, height, idx % width, idx \div width, visited)
                path == componentToPath(ff.component)
            IN ScanLoop(bm, width, height, noiseSize, idx + 1, ff.visited,
                        IF KeepComponent(ff.component, noiseSize) /\ path # <<>>
                        THEN Append(paths, PathElement(path))
                        ELSE paths)
       ELSE ScanLoop(bm, width, height, noiseSize, idx + 1, visited, paths)

\* The components the scan of traceBitmapToPaths fills, in the order it finds
\* them, before the noise filter.
RECURSIVE ScanComponents(_, _, _, _, _, _)
ScanComponents(bm, width, height, idx, visited, found) ==
  IF idx >= width * height THEN found
  ELSE IF idx \notin visited /\ bm[idx + 1] = 1
       THEN LET ff == floodFill(bm, width, height, idx % width, idx \div width, visited)
            IN ScanComponents(bm, width, height, idx + 1, ff.visited,
                              Append(found, ff.component))
       ELSE ScanComponents(bm, width, height, idx + 1, visited, found)

traceBitmapToPaths(bm, width, height, noiseSize) ==
  LET blackPixels == Cardinality({k \in 1..Len(bm) : bm[k] = 1})
  IN IF blackPixels = 0 THEN <<>>
     ELSE ScanLoop(bm, width, height, noiseSize, 0, {}, <<>>)

(***************************************************************************)
(* MultiLayerConverter.combineLayers.  The SVG text is the record of what  *)
(* it declares: width, height, viewBox and its <g> groups in order.        *)
(***************************************************************************)
EmptyLine == [tag |-> "", d |-> <<>>]

\* pathStrings.join('\n'): the lines; no path string holds a line break.
JoinLines(strings) == strings

\* pathData.split('\n'): "" splits into one empty line.
SplitLines(pathData) == IF pathData = <<>> THEN << EmptyLine >> ELSE pathData

\* Variant: width and height change places in the svg element.
combineLayers_SwapsSize(ls, width, height) ==
  [width |-> height,
   height |-> width,
   viewBox |-> <<0, 0, height, width>>,
   groups |-> [k \in 1..Len(ls) |->
                 [id |-> k, fill |-> ls[k].color, fillRule |-> "evenodd",
                  paths |-> SplitLines(ls[k].pathData)]]]

\* Variant: one <g> for the whole image, filled with the first layer's colour,
\* holding the paths of all layers.
RECURSIVE AllPathsFrom(_, _)
AllPathsFrom(ls, k) ==
  IF k > Len(ls) THEN <<>> ELSE SplitLines(ls[k].pathData) \o AllPathsFrom(ls, k + 1)

combineLayers_OneGroup(ls, width, height) ==
  [width |-> width,
   height |-> height,
   viewBox |-> <<0, 0, width, height>>,
   groups |-> << [id |-> 1, fill |-> ls[1].color, fillRule |-> "evenodd",
                  paths |-> AllPathsFrom(ls, 1)] >>]

combineLayers(ls, width, height) ==
  [width |-> width,
   height |-> height,
   viewBox |-> <<0, 0, width, height>>,
   groups |-> [k \in 1..Len(ls) |->
                 [id |-> k, fill |-> ls[k].color, fillRule |-> "evenodd",
                  paths |-> SplitLines(ls[k].pathData)]]]

\* Variant: the first two constructor arguments change places, the noise size
\* is the threshold.
NewTracer_SwapsArgs(st) ==
  [threshold |-> st.turdSize, noiseSize |-> st.threshold, smoothing |-> st.alphaMax]

\* new SimplePathTracer(settings.threshold, settings.turdSize, settings.alphaMax):
\* the fields the constructor sets.
NewTracer(st) ==
  [threshold |-> st.threshold, noiseSize |-> st.turdSize, smoothing |-> st.alphaMax]

\* Variant: the flag is read one index too far, settings.colorInversions[i + 1].
InversionAt_NextIndex(colorInversions, i) ==
  IF i + 2 <= Len(colorInversions) THEN colorInversions[i + 2] ELSE FALSE

\* settings.colorInversions[i] || false, i counted from 0
InversionAt(colorInversions, i) ==
  IF i + 1 <= Len(colorInversions) THEN colorInversions[i + 1] ELSE FALSE

(***************************************************************************)
(* Values before anything is assigned.                                     *)
(***************************************************************************)
NoImageData == [width |-> 0, height |-> 0, data |-> <<>>]
NoPalette == [colors |-> <<>>, counts |-> <<>>]
NoSvg == [width |-> 0, height |-> 0, viewBox |-> <<0, 0, 0, 0>>, groups |-> <<>>]
NoResult == [svg |-> NoSvg, layers |-> <<>>, palette |-> NoPalette,
             width |-> 0, height |-> 0]
NoSettings == [numColors |-> 1, threshold |-> 128, turdSize |-> 0, alphaMax |-> 1,
               colorInversions |-> <<>>]
NoCall == [fn |-> "none"]
NoImg == [naturalWidth |-> 0, naturalHeight |-> 0, pixels |-> <<>>]
NoCanvas == [width |-> 0, height |-> 0]
NoEnv == [load |-> "pending", ctx |-> "pending"]
NoPrev == [done |-> FALSE]

\* A number of the hook's arithmetic: a finite value num/den in lowest terms,
\* or one of the values a division by zero gives.
Finite(num, den) == [kind |-> "finite", num |-> num, den |-> den]
Infinity == [kind |-> "Infinity", num |-> 0, den |-> 1]
NegInfinity == [kind |-> "-Infinity", num |-> 0, den |-> 1]
NaN == [kind |-> "NaN", num |-> 0, den |-> 1]

\* useState<ProcessingStats>({ totalImages: 0, processedImages: 0,
\* averageTime: 0, memoryUsage: 0 })
NoStats == [totalImages |-> 0, processedImages |-> 0, averageTime |-> Finite(0, 1),
            memoryUsage |-> 0]

(***************************************************************************)
(* Inputs.                                                                 *)
(***************************************************************************)
Red == <<255, 0, 0, 255>>
Blue == <<0, 0, 255, 255>>
NearRed == <<240, 0, 0, 128>>
Clear == <<0, 0, 0, 127>>
ConvertPixels == {Red, Blue, NearRed, Clear}

\* The sizes of at most n pixels.
Dims(n) == {d \in (1..n) \X (1..n) : d[1] * d[2] <= n}

Buffers(n, pixels) ==
  UNION {[width : {d[1]}, height : {d[2]}, data : [1..(d[1] * d[2]) -> pixels]] :
           d \in Dims(n)}

InversionLists == {<<>>, <<TRUE>>, <<FALSE, TRUE>>}
NumColorsTried == {1, 2, 3}
NoiseSizesTried == {0, 2}

SettingsSet ==
  [numColors : NumColorsTried, threshold : {128}, turdSize : NoiseSizesTried,
   alphaMax : {1}, colorInversions : InversionLists]

(***************************************************************************)
(* convertImageToMultiLayerSVG as a state machine.                         *)
(***************************************************************************)
Init ==
  /\ pc = "start"
  /\ \E b \in Buffers(MaxCells, ConvertPixels) :
       img = [naturalWidth |-> b.width, naturalHeight |-> b.height, pixels |-> b.data]
  /\ settings \in SettingsSet
  /\ canvas = NoCanvas
  /\ imageData = NoImageData
  /\ env = NoEnv
  /\ palette = NoPalette
  /\ layerIdx = 0
  /\ layers = <<>>
  /\ threw = {}
  /\ mask = NoImageData
  /\ bitmap = <<>>
  /\ pathStrings = <<>>
  /\ result = NoResult
  /\ error = ""
  /\ call = NoCall
  /\ cutBuckets = <<>>
  /\ prev = NoPrev
  /\ images = <<>>
  /\ stats = NoStats
  /\ calls = <<>>
  /\ successTimes = <<>>

\* img.onerror
OnError ==
  /\ pc = "start"
  /\ pc' = "rejected"
  /\ error' = "Failed to load image"
  /\ env' = [env EXCEPT !.load = "error"]
  /\ UNCHANGED <<hookVars, cutBuckets, prev, img, canvas, imageData, settings, palette, layerIdx, layers,
                 threw, mask, bitmap, pathStrings, result, call>>

\* img.onload when canvas.getContext('2d') is null
OnLoadNoContext ==
  /\ pc = "start"
  /\ pc' = "rejected"
  /\ error' = "Conversion failed: Failed to get canvas context"
  /\ env' = [load |-> "ok", ctx |-> "null"]
  /\ UNCHANGED <<hookVars, cutBuckets, prev, img, canvas, imageData, settings, palette, layerIdx, layers,
                 threw, mask, bitmap, pathStrings, result, call>>

\* img.onload, step 1: the canvas takes the image's size and is read back
OnLoad ==
  /\ pc = "start"
  /\ env' = [load |-> "ok", ctx |-> "ok"]
  /\ canvas' = [width |-> img.naturalWidth, height |-> img.naturalHeight]
  /\ imageData' = [width |-> canvas'.width, height |-> canvas'.height,
                   data |-> img.pixels]
  /\ pc' = "quantize"
  /\ UNCHANGED <<hookVars, cutBuckets, prev, img, settings, palette, layerIdx, layers, threw, mask, bitmap,
                 pathStrings, result, error, call>>

\* step 2: quantization, and the empty-palette check
Quantize ==
  /\ pc = "quantize"
  /\ palette' = quantizeColors(imageData, settings.numColors)
  /\ IF Len(palette'.colors) = 0
     THEN /\ pc' = "rejected"
          /\ error' = "Conversion failed: No colors found in image"
     ELSE /\ pc' = "layers"
          /\ error' = error
  /\ layerIdx' = 0
  /\ UNCHANGED <<hookVars, cutBuckets, prev, img, canvas, imageData, settings, env, layers, threw, mask,
                 bitmap, pathStrings, result, call>>

\* Variant: layers.unshift(...) in place of layers.push(...).
ProcessLayer_Prepends ==
  /\ pc = "layers"
  /\ layerIdx < Len(palette.colors)
  /\ LET color == palette.colors[layerIdx + 1]
         inverted == InversionAt(settings.colorInversions, layerIdx)
         m == createColorMask(imageData, color, inverted)
         bm == imageDataToBitmap(m)
         ps == traceBitmapToPaths(bm, m.width, m.height, NewTracer(settings).noiseSize)
         pathData == JoinLines(ps)
     IN /\ mask' = m
        /\ bitmap' = bm
        /\ pathStrings' = ps
        /\ layers' = IF Len(pathData) > 0
                     THEN << [color |-> color, inverted |-> inverted,
                              pathData |-> pathData,
                              pixelCount |-> palette.counts[layerIdx + 1]] >> \o layers
                     ELSE layers
  /\ layerIdx' = layerIdx + 1
  /\ UNCHANGED <<hookVars, cutBuckets, prev, pc, img, canvas, imageData, settings, env, palette, threw,
                 result, error, call>>

\* Variant: createColorMask writes the mask into the buffer it was given in
\* place of a new ImageData.
ProcessLayer_MaskInPlace ==
  /\ pc = "layers"
  /\ layerIdx < Len(palette.colors)
  /\ LET color == palette.colors[layerIdx + 1]
         inverted == InversionAt(settings.colorInversions, layerIdx)
         m == createColorMask(imageData, color, inverted)
         bm == imageDataToBitmap(m)
         ps == traceBitmapToPaths(bm, m.width, m.height, NewTracer(settings).noiseSize)
         pathData == JoinLines(ps)
     IN /\ mask' = m
        /\ imageData' = m
        /\ bitmap' = bm
        /\ pathStrings' = ps
        /\ layers' = IF Len(pathData) > 0
                     THEN Append(layers, [color |-> color, inverted |-> inverted,
                                          pathData |-> pathData,
                                          pixelCount |-> palette.counts[layerIdx + 1]])
                     ELSE layers
  /\ layerIdx' = layerIdx + 1
  /\ UNCHANGED <<hookVars, cutBuckets, prev, pc, img, canvas, settings, env, palette, threw,
                 result, error, call>>

\* step 3, one iteration of the layer loop that runs to its end
ProcessLayer ==
  /\ pc = "layers"
  /\ layerIdx < Len(palette.colors)
  /\ LET color == palette.colors[layerIdx + 1]
         inverted == InversionAt(settings.colorInversions, layerIdx)
         m == createColorMask(imageData, color, inverted)
         bm == imageDataToBitmap(m)
         ps == traceBitmapToPaths(bm, m.width, m.height, NewTracer(settings).noiseSize)
         pathData == JoinLines(ps)
     IN /\ mask' = m
        /\ bitmap' = bm
        /\ pathStrings' = ps
        /\ layers' = IF Len(pathData) > 0
                     THEN Append(layers, [color |-> color, inverted |-> inverted,
                                          pathData |-> pathData,
                                          pixelCount |-> palette.counts[layerIdx + 1]])
                     ELSE layers
  /\ layerIdx' = layerIdx + 1
  /\ UNCHANGED <<hookVars, cutBuckets, prev, pc, img, canvas, imageData, settings, env, palette, threw,
                 result, error, call>>

\* Variant: no try/catch around the layer, the throw reaches the outer catch.
ProcessLayerThrows_Aborts ==
  /\ pc = "layers"
  /\ layerIdx < Len(palette.colors)
  /\ threw' = threw \cup {layerIdx}
  /\ pc' = "rejected"
  /\ error' = "Conversion failed: layer"
  /\ UNCHANGED <<hookVars, cutBuckets, prev, img, canvas, imageData, settings, env, palette, layerIdx, layers,
                 mask, bitmap, pathStrings, result, call>>

\* step 3, one iteration that throws inside the try: caught, the layer is left out
ProcessLayerThrows ==
  /\ pc = "layers"
  /\ layerIdx < Len(palette.colors)
  /\ threw' = threw \cup {layerIdx}
  /\ layerIdx' = layerIdx + 1
  /\ UNCHANGED <<hookVars, cutBuckets, prev, pc, img, canvas, imageData, settings, env, palette, layers,
                 mask, bitmap, pathStrings, result, error, call>>

\* Variant: the layers.length === 0 check is missing.
Finish_AlwaysResolves ==
  /\ pc = "layers"
  /\ layerIdx = Len(palette.colors)
  /\ pc' = "resolved"
  /\ error' = error
  /\ result' = [svg |-> combineLayers(layers, canvas.width, canvas.height),
                layers |-> layers,
                palette |-> palette,
                width |-> canvas.width,
                height |-> canvas.height]
  /\ UNCHANGED <<hookVars, cutBuckets, prev, img, canvas, imageData, settings, env, palette, layerIdx,
                 layers, threw, mask, bitmap, pathStrings, call>>

\* after the loop: the no-layer check, then step 4 and resolve
Finish ==
  /\ pc = "layers"
  /\ layerIdx = Len(palette.colors)
  /\ IF Len(layers) = 0
     THEN /\ pc' = "rejected"
          /\ error' = "Conversion failed: No valid layers generated"
          /\ result' = result
     ELSE /\ pc' = "resolved"
          /\ error' = error
          /\ result' = [svg |-> combineLayers(layers, canvas.width, canvas.height),
                        layers |-> layers,
                        palette |-> palette,
                        width |-> canvas.width,
                        height |-> canvas.height]
  /\ UNCHANGED <<hookVars, cutBuckets, prev, img, canvas, imageData, settings, env, palette, layerIdx,
                 layers, threw, mask, bitmap, pathStrings, call>>

Next ==
  \/ OnError
  \/ OnLoadNoContext
  \/ OnLoad
  \/ Quantize
  \/ ProcessLayer
  \/ ProcessLayerThrows
  \/ Finish

Spec == Init /\ [][Next]_vars

(***************************************************************************)
(* Single calls of the quantizer and the tracer on drawn inputs.           *)
(***************************************************************************)
QuantPixels ==
  {<<0, 0, 0, 255>>, <<2, 0, 1, 255>>, <<2, 0, 2, 128>>, <<2, 0, 0, 255>>,
   <<200, 100, 0, 127>>}

MaskPixels ==
  {<<255, 0, 0, 255>>, <<240, 0, 0, 255>>, <<239, 0, 0, 255>>,
   <<246, 12, 0, 255>>, <<245, 10, 5, 128>>, <<244, 10, 5, 255>>,
   <<255, 0, 0, 127>>, <<0, 0, 0, 0>>, <<0, 0, 0, 255>>}

MaskTargets ==
  {[r |-> 255, g |-> 0, b |-> 0, count |-> 1],
   [r |-> 0, g |-> 9, b |-> 12, count |-> 1],
   [r |-> 100, g |-> 100, b |-> 100, count |-> 1]}

Bitmaps(n) ==
  UNION {[width : {d[1]}, height : {d[2]}, bits : [1..(d[1] * d[2]) -> {0, 1}]] :
           d \in Dims(n)}

Idle ==
  /\ img = NoImg
  /\ canvas = NoCanvas
  /\ settings = NoSettings
  /\ env = NoEnv
  /\ layerIdx = 0
  /\ layers = <<>>
  /\ threw = {}
  /\ result = NoResult
  /\ error = ""
  /\ cutBuckets = <<>>
  /\ prev = NoPrev
  /\ images = <<>>
  /\ stats = NoStats
  /\ calls = <<>>
  /\ successTimes = <<>>

InitQuantize ==
  /\ Idle
  /\ pc = "call"
  /\ call \in [fn : {"quantizeColors"}, maxColors : 1..MaxColors]
  /\ imageData \in Buffers(MaxQuantCells, QuantPixels)
  /\ palette = NoPalette
  /\ mask = NoImageData
  /\ bitmap = <<>>
  /\ pathStrings = <<>>

CallQuantizeColors ==
  /\ pc = "call"
  /\ call.fn = "quantizeColors"
  /\ palette' = quantizeColors(imageData, call.maxColors)
  /\ pc' = "return"
  /\ UNCHANGED <<hookVars, cutBuckets, prev, img, canvas, imageData, settings, env, layerIdx, layers, threw,
                 mask, bitmap, pathStrings, result, error, call>>

\* Variant: the colour map is a field of the quantizer that is never cleared,
\* the second call counts on top of what the first call counted.
CallQuantizeColorsAgain_KeepsMap ==
  /\ pc = "return"
  /\ call.fn = "quantizeColors"
  /\ prev' = [done |-> TRUE, palette |-> palette]
  /\ LET colorMap == BuildColorMap(imageData.data, BuildColorMap(imageData.data, <<>>))
         quantizedColors == medianCut(StableSort(colorMap, "countDesc"), call.maxColors)
     IN palette' = ToPalette(quantizedColors)
  /\ pc' = "again"
  /\ UNCHANGED <<hookVars, cutBuckets, img, canvas, imageData, settings, env, layerIdx, layers, threw,
                 mask, bitmap, pathStrings, result, error, call>>

\* quantizeColors called once more on the same ColorQuantizer, with the same
\* ImageData object and maxColors; what the first call returned is kept in prev.
CallQuantizeColorsAgain ==
  /\ pc = "return"
  /\ call.fn = "quantizeColors"
  /\ prev' = [done |-> TRUE, palette |-> palette]
  /\ palette' = quantizeColors(imageData, call.maxColors)
  /\ pc' = "again"
  /\ UNCHANGED <<hookVars, cutBuckets, img, canvas, imageData, settings, env, layerIdx, layers, threw,
                 mask, bitmap, pathStrings, result, error, call>>

NextQuantize ==
  \/ CallQuantizeColors
  \/ CallQuantizeColorsAgain

SpecQuantize == InitQuantize /\ [][NextQuantize]_vars

InitMask ==
  /\ Idle
  /\ pc = "call"
  /\ call \in [fn : {"createColorMask"}, target : MaskTargets, invert : BOOLEAN]
  /\ imageData \in Buffers(MaxMaskCells, MaskPixels)
  /\ palette = NoPalette
  /\ mask = NoImageData
  /\ bitmap = <<>>
  /\ pathStrings = <<>>

\* createColorMask on the colour string of the target, then imageDataToBitmap
CallCreateColorMask ==
  /\ pc = "call"
  /\ call.fn = "createColorMask"
  /\ mask' = createColorMask(imageData, ColorString(call.target), call.invert)
  /\ bitmap' = imageDataToBitmap(mask')
  /\ pc' = "return"
  /\ UNCHANGED <<hookVars, cutBuckets, prev, img, canvas, imageData, settings, env, palette, layerIdx, layers,
                 threw, pathStrings, result, error, call>>

NextMask == CallCreateColorMask

SpecMask == InitMask /\ [][NextMask]_vars

InitTrace ==
  /\ Idle
  /\ pc = "call"
  /\ \E b \in Bitmaps(MaxBitmapCells), n \in 0..MaxTraceNoise :
       /\ call = [fn |-> "traceBitmapToPaths", width |-> b.width,
                  height |-> b.height, noiseSize |-> n]
       /\ bitmap = b.bits
  /\ imageData = NoImageData
  /\ palette = NoPalette
  /\ mask = NoImageData
  /\ pathStrings = <<>>

\* new SimplePathTracer(_, noiseSize, _).traceBitmapToPaths(bitmap, width, height)
CallTraceBitmapToPaths ==
  /\ pc = "call"
  /\ call.fn = "traceBitmapToPaths"
  /\ pathStrings' = traceBitmapToPaths(bitmap, call.width, call.height, call.noiseSize)
  /\ pc' = "return"
  /\ UNCHANGED <<hookVars, cutBuckets, prev, img, canvas, imageData, settings, env, palette, layerIdx, layers,
                 threw, mask, bitmap, result, error, call>>

\* The bitmaps the tracer traces between two calls on one bitmap: every cell
\* foreground, and the complement.
OtherBitmaps(bits) ==
  {[k \in 1..Len(bits) |-> 1], [k \in 1..Len(bits) |-> 1 - bits[k]]}

\* The same tracer traces another bitmap of the same size; the paths of that
\* call are dropped, the bitmap is remembered in prev.
CallTraceOtherBitmap ==
  /\ pc = "return"
  /\ call.fn = "traceBitmapToPaths"
  /\ \E b \in OtherBitmaps(bitmap) :
       prev' = [done |-> FALSE, other |-> b]
  /\ pc' = "between"
  /\ UNCHANGED <<hookVars, cutBuckets, img, canvas, imageData, settings, env, palette, layerIdx, layers,
                 threw, mask, bitmap, pathStrings, result, error, call>>

\* Variant: visited is a field of the tracer that is set up once and never
\* cleared, the second call starts with the cells the earlier calls visited.
CallTraceBitmapToPathsAgain_KeepsVisited ==
  /\ pc \in {"return", "between"}
  /\ call.fn = "traceBitmapToPaths"
  /\ prev' = [done |-> TRUE, paths |-> pathStrings,
              traced |-> IF pc = "between" THEN << prev.other >> ELSE <<>>]
  /\ LET visited == {k - 1 : k \in {j \in 1..Len(bitmap) :
                        bitmap[j] = 1 \/ (pc = "between" /\ prev.other[j] = 1)}}
     IN pathStrings' =
          IF \A k \in 1..Len(bitmap) : bitmap[k] # 1 THEN <<>>
          ELSE ScanLoop(bitmap, call.width, call.height, call.noiseSize, 0, visited, <<>>)
  /\ pc' = "again"
  /\ UNCHANGED <<hookVars, cutBuckets, img, canvas, imageData, settings, env, palette, layerIdx, layers,
                 threw, mask, bitmap, result, error, call>>

\* traceBitmapToPaths called once more on the same tracer and the same
\* bitmap; what the first call returned is kept in prev.
CallTraceBitmapToPathsAgain ==
  /\ pc \in {"return", "between"}
  /\ call.fn = "traceBitmapToPaths"
  /\ prev' = [done |-> TRUE, paths |-> pathStrings,
              traced |-> IF pc = "between" THEN << prev.other >> ELSE <<>>]
  /\ pathStrings' = traceBitmapToPaths(bitmap, call.width, call.height, call.noiseSize)
  /\ pc' = "again"
  /\ UNCHANGED <<hookVars, cutBuckets, img, canvas, imageData, settings, env, palette, layerIdx, layers,
                 threw, mask, bitmap, result, error, call>>

NextTrace ==
  \/ CallTraceBitmapToPaths
  \/ CallTraceOtherBitmap
  \/ CallTraceBitmapToPathsAgain

SpecTrace == InitTrace /\ [][NextTrace]_vars

(***************************************************************************)
(* Properties.  What the properties speak of is defined here from the      *)
(* pixels and the bitmap themselves, not through the operators above.      *)
(***************************************************************************)
Returned(fn) == pc = "return" /\ call.fn = fn

OpaquePixels(image) == {k \in 1..Len(image.data) : image.data[k][4] >= 128}

DistinctOpaque(image) ==
  {<<image.data[k][1], image.data[k][2], image.data[k][3]>> : k \in OpaquePixels(image)}

\* C5: for every buffer and every maxColors k >= 1 the palette's colors and
\* counts have the same length L, L <= k, L >= 1 when some pixel has
\* alpha >= 128, and L = 0 exactly when none has.
C5_PaletteLength ==
  Returned("quantizeColors") =>
    LET L == Len(palette.colors)
    IN /\ Len(palette.counts) = L
       /\ L <= call.maxColors
       /\ (OpaquePixels(imageData) # {} => L >= 1)
       /\ (L = 0 <=> OpaquePixels(imageData) = {})

\* C5 witness: median cut has reduced three or more distinct opaque colours,
\* among transparent pixels, to a palette of exactly maxColors = 2 entries.
C5_Witness ==
  /\ Returned("quantizeColors")
  /\ call.maxColors = 2
  /\ Cardinality(DistinctOpaque(imageData)) >= 3
  /\ Cardinality(OpaquePixels(imageData)) < Len(imageData.data)
  /\ Len(palette.colors) = 2

Dist2(px, t) == Sq(px[1] - t.r) + Sq(px[2] - t.g) + Sq(px[3] - t.b)

IsBlackPixel(px) == px[1] = 0 /\ px[2] = 0 /\ px[3] = 0

\* C6: createMask paints a pixel black iff its alpha is >= 128 and
\* (match XOR invert), match being dr^2 + dg^2 + db^2 <= 225; a pixel of
\* alpha < 128 is white whatever invert is.
C6_BlackIffMatchXorInvert ==
  Returned("createColorMask") =>
    \A k \in 1..Len(imageData.data) :
      LET px == imageData.data[k]
          match == Dist2(px, call.target) <= 225
      IN /\ IsBlackPixel(mask.data[k]) <=> (px[4] >= 128 /\ (match # call.invert))
         /\ (px[4] < 128 => mask.data[k] = <<255, 255, 255, 255>>)

\* C6 witness: an inverted mask in which an opaque pixel at distance exactly 15
\* of the target and a transparent pixel are both white.
C6_Witness ==
  /\ Returned("createColorMask")
  /\ call.invert
  /\ \E j, k \in 1..Len(imageData.data) :
       /\ imageData.data[j][4] >= 128
       /\ Dist2(imageData.data[j], call.target) = 225
       /\ mask.data[j] = <<255, 255, 255, 255>>
       /\ imageData.data[k][4] < 128
       /\ mask.data[k] = <<255, 255, 255, 255>>

CountPixels(image, v) == Cardinality({k \in 1..Len(image.data) : image.data[k] = v})

\* C10: the mask has the input's width and height and every pixel of it is
\* (0,0,0,255) or (255,255,255,255), so black plus white is width x height.
C10_MaskBlackOrWhite ==
  Returned("createColorMask") =>
    /\ mask.width = imageData.width
    /\ mask.height = imageData.height
    /\ Len(mask.data) = imageData.width * imageData.height
    /\ \A k \in 1..Len(mask.data) :
         mask.data[k] \in {<<0, 0, 0, 255>>, <<255, 255, 255, 255>>}
    /\ CountPixels(mask, <<0, 0, 0, 255>>) + CountPixels(mask, <<255, 255, 255, 255>>)
         = imageData.width * imageData.height

\* C10 witness: a two-pixel mask with one black pixel and one white pixel, the
\* white one painted over a transparent black input pixel.
C10_Witness ==
  /\ Returned("createColorMask")
  /\ Len(mask.data) = 2
  /\ CountPixels(mask, <<0, 0, 0, 255>>) = 1
  /\ \E k \in 1..2 : imageData.data[k] = <<0, 0, 0, 0>> /\ mask.data[k] = <<255, 255, 255, 255>>

(***************************************************************************)
(* The connected components of a bitmap, by 4-adjacency.                   *)
(***************************************************************************)
Foreground(bm, width, height) ==
  {p \in [x : 0..(width - 1), y : 0..(height - 1)] : bm[p.y * width + p.x + 1] = 1}

Adjacent(p, q) ==
  \/ p.x = q.x /\ (p.y = q.y + 1 \/ q.y = p.y + 1)
  \/ p.y = q.y /\ (p.x = q.x + 1 \/ q.x = p.x + 1)

RECURSIVE Closure(_, _)
Closure(S, fg) ==
  LET T == S \cup {q \in fg : \E p \in S : Adjacent(p, q)}
  IN IF T = S THEN S ELSE Closure(T, fg)

ComponentsOf(bm, width, height) ==
  LET fg == Foreground(bm, width, height)
  IN {Closure({p}, fg) : p \in fg}

KeptComponents(bm, width, height, noise) ==
  {c \in ComponentsOf(bm, width, height) : Cardinality(c) >= noise}

\* path is the closed path through the corners of the bounding box of c.
IsBoxPathOf(path, c) ==
  /\ path.tag = "path"
  /\ Len(path.d) = 5
  /\ LET minX == path.d[1][2]
         minY == path.d[1][3]
         maxX == path.d[3][2]
         maxY == path.d[3][3]
     IN /\ path.d = << <<"M", minX, minY>>, <<"L", maxX, minY>>, <<"L", maxX, maxY>>,
                       <<"L", minX, maxY>>, <<"Z">> >>
        /\ \A p \in c : minX <= p.x /\ p.x <= maxX /\ minY <= p.y /\ p.y <= maxY
        /\ \E p \in c : p.x = minX
        /\ \E p \in c : p.x = maxX
        /\ \E p \in c : p.y = minY
        /\ \E p \in c : p.y = maxY

\* C7: trace keeps a component iff its pixel count is >= noiseThreshold; the
\* others are dropped, so the list is empty when all are smaller.
C7_KeptIffAtLeastNoise ==
  Returned("traceBitmapToPaths") =>
    LET comps == ComponentsOf(bitmap, call.width, call.height)
        kept == {c \in comps : Cardinality(c) >= call.noiseSize}
    IN /\ Len(pathStrings) = Cardinality(kept)
       /\ \A c \in comps :
            (\E k \in 1..Len(pathStrings) : IsBoxPathOf(pathStrings[k], c))
              <=> Cardinality(c) >= call.noiseSize
       /\ (kept = {} => pathStrings = <<>>)

\* C7 witness: two disjoint single pixels traced with noiseThreshold = 2 give
\* the empty list.
C7_Witness ==
  /\ Returned("traceBitmapToPaths")
  /\ call.noiseSize = 2
  /\ Cardinality(Foreground(bitmap, call.width, call.height)) = 2
  /\ Cardinality(ComponentsOf(bitmap, call.width, call.height)) = 2
  /\ pathStrings = <<>>

\* C8: every kept component is emitted as exactly one closed path through
\* (minX,minY), (maxX,minY), (maxX,maxY), (minX,maxY) of its bounding box:
\* the box holds every pixel of the component and touches it on all four
\* sides, and every emitted path is such a path of a kept component.
C8_OneBoxPathPerComponent ==
  Returned("traceBitmapToPaths") =>
    LET kept == KeptComponents(bitmap, call.width, call.height, call.noiseSize)
    IN /\ \A c \in kept :
            Cardinality({k \in 1..Len(pathStrings) : IsBoxPathOf(pathStrings[k], c)}) = 1
       /\ \A k \in 1..Len(pathStrings) :
            Cardinality({c \in kept : IsBoxPathOf(pathStrings[k], c)}) = 1

\* C8 witness: a kept component of three pixels that is not a rectangle, its
\* path being the 2 x 2 box around it, beside another kept component.
C8_Witness ==
  /\ Returned("traceBitmapToPaths")
  /\ Len(pathStrings) = 2
  /\ \E c \in KeptComponents(bitmap, call.width, call.height, call.noiseSize) :
       /\ Cardinality(c) = 3
       /\ \E k \in 1..2 :
            /\ IsBoxPathOf(pathStrings[k], c)
            /\ pathStrings[k].d[3][2] = pathStrings[k].d[1][2] + 1
            /\ pathStrings[k].d[3][3] = pathStrings[k].d[1][3] + 1

(***************************************************************************)
(* The conversion, end to end.                                             *)
(***************************************************************************)
Terminal == pc \in {"resolved", "rejected"}

\* The image did not become a pixel buffer: it did not load, or the canvas
\* gave no 2d context to read it back from.
DecodeFailed == env.load = "error" \/ env.ctx = "null"

HexValue(c, k) == c[k] * 16 + c[k + 1]

\* The inversion asked for palette index i (from 0): set only by a true entry.
AskedInverted(i) ==
  i + 1 <= Len(settings.colorInversions) /\ settings.colorInversions[i + 1] = TRUE

\* The foreground of palette index i: the opaque pixels whose match with the
\* palette colour differs from the inversion flag.
ForegroundBits(i) ==
  LET c == palette.colors[i + 1]
      t == [r |-> HexValue(c, 1), g |-> HexValue(c, 3), b |-> HexValue(c, 5)]
  IN [k \in 1..Len(imageData.data) |->
        IF imageData.data[k][4] >= 128
           /\ ((Dist2(imageData.data[k], t) <= 225) # AskedInverted(i))
        THEN 1 ELSE 0]

RetainedOf(i) ==
  KeptComponents(ForegroundBits(i), imageData.width, imageData.height, settings.turdSize)

\* Palette index i yields paths: it did not throw and a component is retained.
Yields(i) == i \notin threw /\ RetainedOf(i) # {}

\* The palette indices that yield paths, ascending.
RECURSIVE SurvivorsFrom(_)
SurvivorsFrom(i) ==
  IF i >= Len(palette.colors) THEN <<>>
  ELSE (IF Yields(i) THEN << i >> ELSE <<>>) \o SurvivorsFrom(i + 1)

\* C1: the conversion rejects iff the image fails to decode, or quantization
\* yields an empty palette (as for a fully transparent buffer), or every
\* palette colour's layer yields zero paths; otherwise it resolves with a
\* result of at least one layer.
C1_RejectsIff ==
  Terminal =>
    /\ pc = "rejected" <=>
         \/ DecodeFailed
         \/ Len(palette.colors) = 0
         \/ \A i \in 0..(Len(palette.colors) - 1) : ~Yields(i)
    /\ (~DecodeFailed /\ OpaquePixels(imageData) = {}) =>
         (pc = "rejected" /\ Len(palette.colors) = 0)
    /\ pc = "resolved" => Len(result.layers) >= 1

\* C1 witness: a decoded image with a non-empty palette, no layer throwing,
\* rejected because no palette colour retains a component.
C1_Witness ==
  /\ pc = "rejected"
  /\ ~DecodeFailed
  /\ Len(palette.colors) >= 1
  /\ threw = {}
  /\ settings.turdSize = 0

\* C2: a layer that throws is skipped alone: when some other colour yields
\* paths the conversion resolves, and its layers are those of the colours that
\* yield paths, in palette order (colours 0 and 2 when 1 of 3 throws).
C2_ThrowSkipsOneLayer ==
  (Terminal /\ ~DecodeFailed /\ threw # {}
   /\ \E i \in 0..(Len(palette.colors) - 1) : Yields(i)) =>
    LET sv == SurvivorsFrom(0)
    IN /\ pc = "resolved"
       /\ Len(result.layers) = Len(sv)
       /\ \A k \in 1..Len(sv) : result.layers[k].color = palette.colors[sv[k] + 1]
       /\ \A k \in 1..Len(sv) : sv[k] \notin threw

\* C2 witness: a palette of three colours, index 1 threw, and the result holds
\* the layers of colours 0 and 2 in that order.
C2_Witness ==
  /\ pc = "resolved"
  /\ Len(palette.colors) = 3
  /\ threw = {1}
  /\ Len(result.layers) = 2
  /\ result.layers[1].color = palette.colors[1]
  /\ result.layers[2].color = palette.colors[3]
  /\ palette.colors[1] # palette.colors[3]

\* C3: in a successful conversion the layers, and the groups of the svg in the
\* same order, are the palette entries that retained a component, in palette
\* index order, one each; an entry retaining none gives no layer and no group.
C3_LayersArePaletteSubsequence ==
  pc = "resolved" =>
    LET sv == SurvivorsFrom(0)
    IN /\ Len(result.layers) = Len(sv)
       /\ Len(result.svg.groups) = Len(sv)
       /\ \A k \in 1..Len(sv) :
            /\ result.layers[k].color = palette.colors[sv[k] + 1]
            /\ result.layers[k].pixelCount = palette.counts[sv[k] + 1]
            /\ Len(result.layers[k].pathData) = Cardinality(RetainedOf(sv[k]))
            /\ result.svg.groups[k].fill = palette.colors[sv[k] + 1]
            /\ Len(result.svg.groups[k].paths) = Cardinality(RetainedOf(sv[k]))
       /\ \A j, k \in 1..Len(sv) : j < k => sv[j] < sv[k]

\* C3 witness: of three palette colours the middle one retains no component,
\* without throwing, and the layers are those of the first and the third.
C3_Witness ==
  /\ pc = "resolved"
  /\ Len(palette.colors) = 3
  /\ threw = {}
  /\ RetainedOf(1) = {}
  /\ Len(result.layers) = 2
  /\ result.svg.groups[1].fill = palette.colors[1]
  /\ result.svg.groups[2].fill = palette.colors[3]
  /\ palette.colors[1] # palette.colors[3]

\* C4: for a source of w x h pixels whose conversion succeeds the svg declares
\* width w, height h and viewBox 0 0 w h, the result's width and height are w
\* and h, and the buffer, the masks and the bitmaps have that size too.
C4_DimensionsKept ==
  pc = "resolved" =>
    LET w == img.naturalWidth
        h == img.naturalHeight
    IN /\ result.svg.width = w
       /\ result.svg.height = h
       /\ result.svg.viewBox = <<0, 0, w, h>>
       /\ result.width = w
       /\ result.height = h
       /\ imageData.width = w /\ imageData.height = h
       /\ Len(imageData.data) = w * h
       /\ mask.width = w /\ mask.height = h
       /\ Len(bitmap) = w * h

\* C4 witness: a successful conversion of an image wider than high.
C4_Witness ==
  /\ pc = "resolved"
  /\ img.naturalWidth = 3
  /\ img.naturalHeight = 1
  /\ result.svg.viewBox = <<0, 0, 3, 1>>

AllRed2x2 ==
  /\ img.naturalWidth = 2
  /\ img.naturalHeight = 2
  /\ \A k \in 1..4 : img.pixels[k] = <<255, 0, 0, 255>>

\* C9: a 2 x 2 buffer of opaque pure red converted with numColors = 1 and
\* noiseSize = 0 (nothing else set, the platform not failing) gives the palette
\* [#ff0000 with count 4], one layer with the single path through (0,0), (1,0),
\* (1,1), (0,1), the box of all four pixel coordinates, and an svg of width 2
\* and height 2.
C9_ScenarioAllRed ==
  (Terminal /\ ~DecodeFailed /\ threw = {} /\ AllRed2x2
   /\ settings.numColors = 1 /\ settings.turdSize = 0 /\ ~AskedInverted(0)) =>
    /\ pc = "resolved"
    /\ result.palette = [colors |-> << <<15, 15, 0, 0, 0, 0>> >>, counts |-> << 4 >>]
    /\ Len(result.layers) = 1
    /\ result.layers[1].color = <<15, 15, 0, 0, 0, 0>>
    /\ result.layers[1].pixelCount = 4
    /\ result.layers[1].pathData =
         << [tag |-> "path",
             d |-> << <<"M", 0, 0>>, <<"L", 1, 0>>, <<"L", 1, 1>>, <<"L", 0, 1>>,
                      <<"Z">> >>] >>
    /\ Len(result.svg.groups) = 1
    /\ result.svg.width = 2
    /\ result.svg.height = 2

\* C9 witness: that conversion, resolved.
C9_Witness ==
  /\ pc = "resolved"
  /\ AllRed2x2
  /\ settings.numColors = 1
  /\ settings.turdSize = 0
  /\ settings.colorInversions = <<>>
  /\ Len(result.layers) = 1

(***************************************************************************)
(* The tracer on the smallest bitmaps.                                     *)
(***************************************************************************)
\* The path whose four corners are all the point (x, y).
PointPath(x, y) ==
  [tag |-> "path",
   d |-> << <<"M", x, y>>, <<"L", x, y>>, <<"L", x, y>>, <<"L", x, y>>, <<"Z">> >>]

\* C11: a bitmap without foreground pixels traces to the empty list; a bitmap
\* with the single foreground pixel (x, y), traced with noiseThreshold <= 1,
\* traces to exactly one path, the rectangle whose four corners are all (x, y).
C11_EmptyAndSinglePixel ==
  Returned("traceBitmapToPaths") =>
    LET fg == Foreground(bitmap, call.width, call.height)
    IN /\ fg = {} => pathStrings = <<>>
       /\ \A p \in fg :
            fg = {p} /\ call.noiseSize <= 1 => pathStrings = << PointPath(p.x, p.y) >>

\* C11 witness: the centre pixel of a 3 x 3 bitmap, alone, traced with
\* noiseThreshold = 1, came back as the one path at (1, 1).
C11_Witness ==
  /\ Returned("traceBitmapToPaths")
  /\ call.width = 3 /\ call.height = 3 /\ call.noiseSize = 1
  /\ bitmap = <<0, 0, 0, 0, 1, 0, 0, 0, 0>>
  /\ pathStrings = << PointPath(1, 1) >>

\* C11, the other case reached: a bitmap with no foreground returned <<>>.
C11_WitnessEmpty ==
  /\ Returned("traceBitmapToPaths")
  /\ Foreground(bitmap, call.width, call.height) = {}
  /\ Len(bitmap) = 4
  /\ pathStrings = <<>>

(***************************************************************************)
(* Two conversions of one image: convertImageToMultiLayerSVG runs to its   *)
(* end, and is called again on the same image with another threshold       *)
(* and/or alphaMax.  The platform does not fail here.                      *)
(***************************************************************************)
MaxRerunCells == 3

ThresholdsTried == {0, 128}
AlphaMaxTried == {0, 1}

InitRerun ==
  /\ pc = "start"
  /\ \E b \in Buffers(MaxRerunCells, ConvertPixels) :
       img = [naturalWidth |-> b.width, naturalHeight |-> b.height, pixels |-> b.data]
  /\ settings \in SettingsSet
  /\ canvas = NoCanvas
  /\ imageData = NoImageData
  /\ env = NoEnv
  /\ palette = NoPalette
  /\ layerIdx = 0
  /\ layers = <<>>
  /\ threw = {}
  /\ mask = NoImageData
  /\ bitmap = <<>>
  /\ pathStrings = <<>>
  /\ result = NoResult
  /\ error = ""
  /\ call = NoCall
  /\ cutBuckets = <<>>
  /\ prev = NoPrev
  /\ images = <<>>
  /\ stats = NoStats
  /\ calls = <<>>
  /\ successTimes = <<>>

\* The second call of convertImageToMultiLayerSVG: a new promise, canvas and
\* layer list; what the first call settled with is kept in prev.
ConvertAgain ==
  /\ pc \in {"resolved", "rejected"}
  /\ ~prev.done
  /\ prev' = [done |-> TRUE, pc |-> pc, result |-> result, error |-> error,
              palette |-> palette, layers |-> layers, settings |-> settings]
  /\ \E t \in ThresholdsTried, a \in AlphaMaxTried :
       /\ t # settings.threshold \/ a # settings.alphaMax
       /\ settings' = [settings EXCEPT !.threshold = t, !.alphaMax = a]
  /\ pc' = "start"
  /\ canvas' = NoCanvas
  /\ imageData' = NoImageData
  /\ env' = NoEnv
  /\ palette' = NoPalette
  /\ layerIdx' = 0
  /\ layers' = <<>>
  /\ threw' = {}
  /\ mask' = NoImageData
  /\ bitmap' = <<>>
  /\ pathStrings' = <<>>
  /\ result' = NoResult
  /\ error' = ""
  /\ UNCHANGED <<hookVars, img, call, cutBuckets>>

NextRerun ==
  \/ OnLoad
  \/ Quantize
  \/ ProcessLayer
  \/ Finish
  \/ ConvertAgain

SpecRerun == InitRerun /\ [][NextRerun]_vars

\* The foreground of the mask of a colour string under an inversion flag, from
\* the pixels: the opaque pixels whose match with the colour differs from the
\* flag.
MaskBitsOf(color, inverted) ==
  LET t == [r |-> HexValue(color, 1), g |-> HexValue(color, 3), b |-> HexValue(color, 5)]
  IN [k \in 1..Len(imageData.data) |->
        IF imageData.data[k][4] >= 128
           /\ ((Dist2(imageData.data[k], t) <= 225) # inverted)
        THEN 1 ELSE 0]

\* C12: the svg holds exactly one <g> per entry of result.layers, in order,
\* with fill = the layer's colour and fill-rule = evenodd; the group holds
\* exactly one <path> per retained connected component of the layer's mask,
\* and the data of every path is made of M, L and Z commands only.
C12_GroupsAndPaths ==
  pc = "resolved" =>
    LET groups == result.svg.groups
        ls == result.layers
    IN /\ Len(groups) = Len(ls)
       /\ \A k \in 1..Len(ls) :
            /\ groups[k].fill = ls[k].color
            /\ groups[k].fillRule = "evenodd"
            /\ Len(groups[k].paths) =
                 Cardinality(KeptComponents(MaskBitsOf(ls[k].color, ls[k].inverted),
                                            imageData.width, imageData.height,
                                            settings.turdSize))
            /\ \A j \in 1..Len(groups[k].paths) :
                 /\ groups[k].paths[j].tag = "path"
                 /\ Len(groups[k].paths[j].d) > 0
                 /\ \A c \in 1..Len(groups[k].paths[j].d) :
                      groups[k].paths[j].d[c][1] \in {"M", "L", "Z"}

\* C12 witness: a resolved conversion with two groups of different fills, the
\* first of them holding two paths.
C12_Witness ==
  /\ pc = "resolved"
  /\ Len(result.svg.groups) = 2
  /\ result.svg.groups[1].fill # result.svg.groups[2].fill
  /\ Len(result.svg.groups[1].paths) = 2
  /\ Len(result.svg.groups[2].paths) = 1

\* C13: the mask of palette index i is built with invert = colorInversions[i]
\* when that entry is present and true, and with invert = false when the list
\* is empty or too short for i; the inverted flag recorded in the colour's
\* LayerInfo is the flag its mask was built with.
C13_InversionFlagUsedAndRecorded ==
  /\ pc \in {"layers", "resolved", "rejected"} /\ layerIdx >= 1 =>
       LET i == layerIdx - 1
           asked == i + 1 <= Len(settings.colorInversions)
                      /\ settings.colorInversions[i + 1] = TRUE
           bits == MaskBitsOf(palette.colors[i + 1], asked)
       IN /\ \A k \in 1..Len(mask.data) : IsBlackPixel(mask.data[k]) <=> bits[k] = 1
          /\ pathStrings # <<>> =>
               /\ layers # <<>>
               /\ layers[Len(layers)].color = palette.colors[i + 1]
               /\ layers[Len(layers)].inverted = asked
  /\ pc = "resolved" =>
       \A k \in 1..Len(result.layers) :
         result.layers[k].inverted = AskedInverted(SurvivorsFrom(0)[k])

\* C13 witness: under colorInversions = [false, true] and a palette of three
\* colours, all three layers survive: the second is recorded inverted, the
\* first and the third, which has no entry in the list, are not.
C13_Witness ==
  /\ pc = "resolved"
  /\ settings.colorInversions = <<FALSE, TRUE>>
  /\ Len(palette.colors) = 3
  /\ Len(result.layers) = 3
  /\ ~result.layers[1].inverted
  /\ result.layers[2].inverted
  /\ ~result.layers[3].inverted
  /\ \E k \in 1..Len(mask.data) : IsBlackPixel(mask.data[k])

DiagonalOnly(p, q) ==
  (p.x = q.x + 1 \/ q.x = p.x + 1) /\ (p.y = q.y + 1 \/ q.y = p.y + 1)

\* The set of the pixels of a component.
PixelsOf(component) == {component[j] : j \in 1..Len(component)}

\* C17: the components the flood fill finds partition the foreground: every
\* foreground pixel lies in exactly one component and no background pixel in
\* any; a component is 4-connected and maximal, no foreground pixel outside it
\* is 4-adjacent to one of its pixels; two foreground pixels that touch only
\* diagonally, with no 4-connected chain between them, lie in different
\* components.
C17_ComponentsPartitionForeground ==
  Returned("traceBitmapToPaths") =>
    LET fg == Foreground(bitmap, call.width, call.height)
        found == ScanComponents(bitmap, call.width, call.height, 0, {}, <<>>)
        InComponent(p) == {k \in 1..Len(found) : p \in PixelsOf(found[k])}
    IN /\ \A k \in 1..Len(found) :
            /\ found[k] # <<>>
            /\ Cardinality(PixelsOf(found[k])) = Len(found[k])
            /\ PixelsOf(found[k]) \subseteq fg
            /\ Closure({found[k][1]}, PixelsOf(found[k])) = PixelsOf(found[k])
            /\ \A p \in PixelsOf(found[k]) :
                 \A q \in fg : Adjacent(p, q) => q \in PixelsOf(found[k])
       /\ \A p \in fg : Cardinality(InComponent(p)) = 1
       /\ \A p \in fg : \A q \in fg :
            DiagonalOnly(p, q) /\ q \notin Closure({p}, fg)
              => InComponent(p) # InComponent(q)
       /\ Len(pathStrings) =
            Cardinality({k \in 1..Len(found) : Len(found[k]) >= call.noiseSize})

\* C17 witness: the two pixels of a diagonal of a 2 x 2 bitmap were filled as
\* two components of one pixel each.
C17_Witness ==
  /\ Returned("traceBitmapToPaths")
  /\ call.width = 2 /\ call.height = 2 /\ call.noiseSize = 1
  /\ bitmap = <<1, 0, 0, 1>>
  /\ ScanComponents(bitmap, 2, 2, 0, {}, <<>>) = << << Pt(0, 0) >>, << Pt(1, 1) >> >>
  /\ Len(pathStrings) = 2

(***************************************************************************)
(* medianCut step by step: one call of quantizeColors in which every pass   *)
(* of the splitting loop is a step.                                        *)
(***************************************************************************)
MaxCutCells == 4
MaxCutColors == 3

CutPixels == QuantPixels \cup {<<0, 3, 0, 255>>}

InitMedianCut ==
  /\ Idle
  /\ pc = "call"
  /\ call \in [fn : {"medianCut"}, maxColors : 1..MaxCutColors]
  /\ imageData \in Buffers(MaxCutCells, CutPixels)
  /\ palette = NoPalette
  /\ mask = NoImageData
  /\ bitmap = <<>>
  /\ pathStrings = <<>>

\* quantizeColors up to the loop of medianCut: the colour array is built, and
\* returned as it is when it has no more than maxColors entries.
MedianCutEnter ==
  /\ pc = "call"
  /\ call.fn = "medianCut"
  /\ LET colorArray == StableSort(BuildColorMap(imageData.data, <<>>), "countDesc")
     IN IF Len(colorArray) <= call.maxColors
        THEN /\ palette' = ToPalette(colorArray)
             /\ cutBuckets' = cutBuckets
             /\ pc' = "return"
        ELSE /\ palette' = palette
             /\ cutBuckets' = << colorArray >>
             /\ pc' = "split"
  /\ UNCHANGED <<hookVars, prev, img, canvas, imageData, settings, env, layerIdx, layers, threw,
                 mask, bitmap, pathStrings, result, error, call>>

\* One pass of while (buckets.length < maxColors): the bucket is chosen, split
\* and spliced in.  prev keeps the index chosen and the list it was chosen
\* from.
MedianCutSplit ==
  /\ pc = "split"
  /\ Len(cutBuckets) < call.maxColors
  /\ LET at == LargestBucket(cutBuckets, 1, 1, 0)
     IN /\ cutBuckets' = Splice(cutBuckets, at, splitBucket(cutBuckets[at]))
        /\ prev' = [done |-> TRUE, at |-> at, before |-> cutBuckets]
  /\ UNCHANGED <<hookVars, pc, img, canvas, imageData, settings, env, palette, layerIdx, layers, threw,
                 mask, bitmap, pathStrings, result, error, call>>

\* Variant: the representatives are sorted by count, largest first, before
\* they become the palette.
MedianCutReturn_SortsByCount ==
  /\ pc = "split"
  /\ Len(cutBuckets) >= call.maxColors
  /\ palette' = ToPalette(StableSort([k \in 1..Len(cutBuckets) |->
                                        getAverageColor(cutBuckets[k])], "countDesc"))
  /\ pc' = "return"
  /\ UNCHANGED <<hookVars, cutBuckets, prev, img, canvas, imageData, settings, env, layerIdx, layers,
                 threw, mask, bitmap, pathStrings, result, error, call>>

\* The loop is left: the averages of the buckets become the palette.
MedianCutReturn ==
  /\ pc = "split"
  /\ Len(cutBuckets) >= call.maxColors
  /\ palette' = ToPalette([k \in 1..Len(cutBuckets) |-> getAverageColor(cutBuckets[k])])
  /\ pc' = "return"
  /\ UNCHANGED <<hookVars, cutBuckets, prev, img, canvas, imageData, settings, env, layerIdx, layers,
                 threw, mask, bitmap, pathStrings, result, error, call>>

NextMedianCut ==
  \/ MedianCutEnter
  \/ MedianCutSplit
  \/ MedianCutReturn

SpecMedianCut == InitMedianCut /\ [][NextMedianCut]_vars

\* The range of a bucket from its members: the largest, over r, g and b, of
\* the difference of the largest and the smallest value, whatever the counts.
SpanOf(bucket, ch) ==
  LET vals == {bucket[j][ch] : j \in 1..Len(bucket)}
  IN (CHOOSE v \in vals : \A w \in vals : v >= w)
       - (CHOOSE v \in vals : \A w \in vals : v <= w)

BucketRange(bucket) ==
  LET spans == {SpanOf(bucket, ch) : ch \in {"r", "g", "b"}}
  IN CHOOSE v \in spans : \A w \in spans : v >= w

MembersOf(bucket) == {bucket[j] : j \in 1..Len(bucket)}

\* C18: the splitting loop of median cut ends: every pass makes the bucket
\* list longer by exactly one, and the list, which starts with one bucket, never
\* grows beyond maxColors, at which the loop is left; so there are fewer than
\* maxColors passes.  While the loop runs no bucket is empty: every split gave
\* two non-empty halves, and no representative is computed from an empty
\* bucket.  When it has stopped the number of buckets, and of colours returned,
\* is the smaller of maxColors and the number of distinct opaque colours.
C18_MedianCutTerminates ==
  /\ [][pc = "split" /\ pc' = "split" =>
          Len(cutBuckets') = Len(cutBuckets) + 1]_vars
  /\ [][pc = "split" => pc' \in {"split", "return"}]_vars
  /\ [](pc = "split" =>
          /\ 1 <= Len(cutBuckets)
          /\ Len(cutBuckets) <= call.maxColors
          /\ Len(cutBuckets) < Cardinality(DistinctOpaque(imageData)))
  /\ [](pc \in {"split", "return"} =>
          \A k \in 1..Len(cutBuckets) : cutBuckets[k] # <<>>)
  /\ [](pc = "return" =>
          LET least == Min(call.maxColors, Cardinality(DistinctOpaque(imageData)))
          IN /\ Len(palette.colors) = least
             /\ cutBuckets # <<>> => Len(cutBuckets) = least)

\* C18 witness: four distinct colours were cut to three buckets, and the call
\* returned three colours.
C18_Witness ==
  /\ pc = "return"
  /\ call.fn = "medianCut"
  /\ call.maxColors = 3
  /\ Cardinality(DistinctOpaque(imageData)) = 4
  /\ Len(cutBuckets) = 3
  /\ Len(palette.colors) = 3

\* C19: at each step of median cut the bucket that is split has the largest
\* range of all current buckets, and of the buckets that tie for the largest
\* range it is the one of the lowest index: the list after the step is the
\* list before it with that bucket replaced by two buckets of its members.
C19_SplitsLargestLowestIndex ==
  [][pc = "split" /\ pc' = "split" =>
       \E at \in 1..Len(cutBuckets) :
         /\ Len(cutBuckets') = Len(cutBuckets) + 1
         /\ \A j \in 1..(at - 1) : cutBuckets'[j] = cutBuckets[j]
         /\ \A j \in (at + 1)..Len(cutBuckets) : cutBuckets'[j + 1] = cutBuckets[j]
         /\ cutBuckets'[at] # cutBuckets[at]
         /\ MembersOf(cutBuckets'[at]) \cup MembersOf(cutBuckets'[at + 1])
              = MembersOf(cutBuckets[at])
         /\ \A j \in 1..Len(cutBuckets) :
              BucketRange(cutBuckets[j]) <= BucketRange(cutBuckets[at])
         /\ \A j \in 1..(at - 1) :
              BucketRange(cutBuckets[j]) < BucketRange(cutBuckets[at])]_vars

\* C19 witness: two buckets tied for the largest range, and the first of them
\* was split.
C19_Witness ==
  /\ pc = "split"
  /\ prev.done
  /\ Len(prev.before) = 2
  /\ BucketRange(prev.before[1]) = BucketRange(prev.before[2])
  /\ prev.at = 1
  /\ Len(cutBuckets) = 3
  /\ cutBuckets[3] = prev.before[2]

\* C20: splitting a bucket of n >= 2 distinct colours gives a lower half of
\* floor(n/2) members and an upper half of n - floor(n/2) members, counted in
\* colours and not in pixels; the halves are disjoint and together hold
\* exactly the members of the bucket; on a channel of the largest range every
\* member of the lower half has a value <= that of every member of the upper
\* half.
C20_SplitBucketHalves ==
  pc = "split" =>
    \A k \in 1..Len(cutBuckets) :
      Len(cutBuckets[k]) >= 2 =>
        LET bucket == cutBuckets[k]
            n == Len(bucket)
            halves == splitBucket(bucket)
        IN /\ Len(halves) = 2
           /\ Len(halves[1]) = n \div 2
           /\ Len(halves[2]) = n - (n \div 2)
           /\ MembersOf(halves[1]) \cap MembersOf(halves[2]) = {}
           /\ MembersOf(halves[1]) \cup MembersOf(halves[2]) = MembersOf(bucket)
           /\ Cardinality(MembersOf(halves[1])) = Len(halves[1])
           /\ Cardinality(MembersOf(halves[2])) = Len(halves[2])
           /\ \E ch \in {"r", "g", "b"} :
                /\ SpanOf(bucket, ch) = BucketRange(bucket)
                /\ \A a \in MembersOf(halves[1]) : \A b \in MembersOf(halves[2]) :
                     a[ch] <= b[ch]

\* C20 witness: a bucket of three colours, one of them counting two pixels,
\* was split into a lower half of one colour and an upper half of two.
C20_Witness ==
  /\ pc = "split"
  /\ prev.done
  /\ Len(prev.before[prev.at]) = 3
  /\ \E j \in 1..3 : prev.before[prev.at][j].count = 2
  /\ Len(cutBuckets[prev.at]) = 1
  /\ Len(cutBuckets[prev.at + 1]) = 2
  /\ << cutBuckets[prev.at], cutBuckets[prev.at + 1] >> = splitBucket(prev.before[prev.at])

(***************************************************************************)
(* The representative of a bucket.                                         *)
(***************************************************************************)
\* The sum over the colours of a set: of count, or of a channel times count.
RECURSIVE TotalOf(_, _)
TotalOf(S, ch) ==
  IF S = {} THEN 0
  ELSE LET c == CHOOSE x \in S : TRUE
       IN (IF ch = "count" THEN c.count ELSE c[ch] * c.count) + TotalOf(S \ {c}, ch)

\* v is total / count rounded to the nearest integer, a half going up.
IsRounded(v, total, count) ==
  /\ 2 * v * count - count <= 2 * total
  /\ 2 * total < 2 * v * count + count

\* The value of a palette colour on a channel.
PaletteValue(color, ch) ==
  IF ch = "r" THEN HexValue(color, 1)
  ELSE IF ch = "g" THEN HexValue(color, 3) ELSE HexValue(color, 5)

\* C21: the palette entry of a median-cut bucket has on each channel the value
\* round(sum(channel x count) / sum(count)) over the members of the bucket;
\* that value lies between the least and the largest value of the members on
\* the channel, hence in 0..255; the count of the entry is the sum of the
\* counts of the members.
C21_WeightedAverage ==
  pc = "return" /\ call.fn = "medianCut" /\ cutBuckets # <<>> =>
    \A k \in 1..Len(cutBuckets) :
      LET members == MembersOf(cutBuckets[k])
          count == TotalOf(members, "count")
      IN /\ palette.counts[k] = count
         /\ \A ch \in {"r", "g", "b"} :
              LET v == PaletteValue(palette.colors[k], ch)
              IN /\ IsRounded(v, TotalOf(members, ch), count)
                 /\ \E c \in members : c[ch] <= v
                 /\ \E c \in members : v <= c[ch]
                 /\ 0 <= v /\ v <= 255

\* C21 witness: black counted three times and (2, 0, 1) once are one bucket;
\* its entry is (1, 0, 0) with count 4: red 2/4 goes up to 1, blue 1/4 goes
\* down to 0, where the plain mean of blue, 1/2, would go up.
C21_Witness ==
  /\ pc = "return"
  /\ call.fn = "medianCut"
  /\ Len(cutBuckets) = 1
  /\ MembersOf(cutBuckets[1]) = {[r |-> 0, g |-> 0, b |-> 0, count |-> 3],
                                 [r |-> 2, g |-> 0, b |-> 1, count |-> 1]}
  /\ palette.colors = << <<0, 1, 0, 0, 0, 0>> >>
  /\ palette.counts = <<4>>

(***************************************************************************)
(* The palette of quantizeColors against the pixels.                       *)
(***************************************************************************)
\* The (r, g, b) of a palette colour.
PaletteRgb(color) == <<HexValue(color, 1), HexValue(color, 3), HexValue(color, 5)>>

\* The number of opaque pixels of the buffer of colour rgb.
Frequency(image, rgb) ==
  Cardinality({k \in OpaquePixels(image) :
                 <<image.data[k][1], image.data[k][2], image.data[k][3]>> = rgb})

\* C22: when the buffer has no more distinct opaque colours than maxColors,
\* the palette holds exactly those colours, each once and unchanged, and the
\* count of each is the number of opaque pixels of that colour.
C22_FewColorsKeptExactly ==
  Returned("quantizeColors")
    /\ Cardinality(DistinctOpaque(imageData)) <= call.maxColors =>
      /\ Len(palette.colors) = Cardinality(DistinctOpaque(imageData))
      /\ Len(palette.counts) = Len(palette.colors)
      /\ {PaletteRgb(palette.colors[k]) : k \in 1..Len(palette.colors)}
           = DistinctOpaque(imageData)
      /\ \A k \in 1..Len(palette.colors) :
           palette.counts[k] = Frequency(imageData, PaletteRgb(palette.colors[k]))

\* C22 witness: a buffer of four pixels, one of them transparent, with two
\* distinct opaque colours, one on two pixels, quantized to at most three
\* colours: the palette is the two colours with counts 2 and 1.
C22_Witness ==
  /\ Returned("quantizeColors")
  /\ call.maxColors = 3
  /\ Len(imageData.data) = 4
  /\ Cardinality(OpaquePixels(imageData)) = 3
  /\ Cardinality(DistinctOpaque(imageData)) = 2
  /\ Len(palette.colors) = 2
  /\ palette.counts = <<2, 1>>

(***************************************************************************)
(* The order of the palette.                                               *)
(***************************************************************************)
\* entry (colour string and count) is the representative of the bucket.
IsRepresentativeOf(color, count, bucket) ==
  /\ count = TotalOf(MembersOf(bucket), "count")
  /\ \A ch \in {"r", "g", "b"} :
       IsRounded(PaletteValue(color, ch), TotalOf(MembersOf(bucket), ch), count)

FirstPixel(c, width) ==
  CHOOSE i \in {p.y * width + p.x : p \in c} :
    \A j \in {p.y * width + p.x : p \in c} : i <= j

\* The place of kept component c among the kept components, by first pixel.
DiscoveryRank(c, kept, width) ==
  1 + Cardinality({d \in kept : FirstPixel(d, width) < FirstPixel(c, width)})

\* C24: the paths of a trace are in the order in which the row-major scan
\* meets the kept components: the path of the kept component whose first
\* pixel is the k-th among the first pixels of the kept components is the
\* k-th path.
C24_PathsInDiscoveryOrder ==
  Returned("traceBitmapToPaths") =>
    LET kept == KeptComponents(bitmap, call.width, call.height, call.noiseSize)
    IN /\ Len(pathStrings) = Cardinality(kept)
       /\ \A c \in kept :
            IsBoxPathOf(pathStrings[DiscoveryRank(c, kept, call.width)], c)
       /\ \A a, b \in kept :
            FirstPixel(a, call.width) < FirstPixel(b, call.width) =>
              \E i, j \in 1..Len(pathStrings) :
                /\ i < j
                /\ IsBoxPathOf(pathStrings[i], a)
                /\ IsBoxPathOf(pathStrings[j], b)

\* C24 witness: 3x3, a one-pixel component is dropped between two kept ones;
\* the first kept component starts at the right of the top row, the second
\* in the left column below, so the first path has the larger x.
C24_Witness ==
  /\ Returned("traceBitmapToPaths")
  /\ call.width = 3 /\ call.height = 3 /\ call.noiseSize = 2
  /\ bitmap = <<1, 0, 1,
                0, 0, 1,
                1, 1, 0>>
  /\ Len(pathStrings) = 2
  /\ pathStrings[1].d[1] = <<"M", 2, 0>>
  /\ pathStrings[2].d[1] = <<"M", 0, 2>>

(***************************************************************************)
(* The source buffer during a conversion.                                  *)
(***************************************************************************)
\* The bitmap of the mask of a colour string under an inversion flag, from
\* the pixels of the decoded image as they were drawn to the canvas.
CapturedMaskBits(color, inverted) ==
  LET t == [r |-> HexValue(color, 1), g |-> HexValue(color, 3), b |-> HexValue(color, 5)]
  IN [k \in 1..Len(img.pixels) |->
        IF img.pixels[k][4] >= OpaqueAlpha
           /\ ((Dist2(img.pixels[k], t) <= colorTolerance * colorTolerance) # inverted)
        THEN 1 ELSE 0]

\* C25: from its capture to the end of the conversion the source buffer holds
\* the pixels it was captured with: neither the quantization nor a layer's
\* mask, bitmap and trace changes it, and the bitmap of every layer is the
\* one of the captured pixels, whatever layers were processed before it.
C25_SourceBufferUnchanged ==
  /\ [](pc \in {"quantize", "layers", "resolved"} =>
          /\ imageData.width = img.naturalWidth
          /\ imageData.height = img.naturalHeight
          /\ imageData.data = img.pixels)
  /\ [][(pc \in {"quantize", "layers"}) => imageData' = imageData]_vars
  /\ [][pc = "layers" /\ layerIdx' = layerIdx + 1 =>
          bitmap' = CapturedMaskBits(palette.colors[layerIdx + 1],
                                     InversionAt(settings.colorInversions, layerIdx))]_vars

\* C25 witness: two layers are done, the mask of the second is not the
\* buffer, and the buffer still holds the pixels of the image.
C25_Witness ==
  /\ pc = "layers"
  /\ layerIdx = 2
  /\ Len(layers) = 2
  /\ Len(imageData.data) = 3
  /\ mask.data # imageData.data
  /\ imageData.data = img.pixels
  /\ \E k \in 1..3 : imageData.data[k] = Blue

(***************************************************************************)
(* The counts of a palette.                                                *)
(***************************************************************************)
RECURSIVE SumSeq(_)
SumSeq(s) == IF s = <<>> THEN 0 ELSE Head(s) + SumSeq(Tail(s))

\* C26: for every buffer and maxColors >= 1 every count of the palette is at
\* least 1 and the counts add up to the number of pixels with alpha >= 128.
C26_CountsConservePixels ==
  Returned("quantizeColors") /\ call.maxColors >= 1 =>
    /\ \A k \in 1..Len(palette.counts) : palette.counts[k] >= 1
    /\ SumSeq(palette.counts) = Cardinality(OpaquePixels(imageData))

\* C26 witness: four opaque pixels of three colours, one colour twice, cut
\* to two entries: one entry stands for two colours and three pixels.
C26_Witness ==
  /\ Returned("quantizeColors")
  /\ call.maxColors = 2
  /\ Cardinality(OpaquePixels(imageData)) = 4
  /\ Cardinality(DistinctOpaque(imageData)) = 3
  /\ \E k \in 1..2 : palette.counts[k] = 3
  /\ SumSeq(palette.counts) = 4

(***************************************************************************)
(* Conversions that lose no layer.                                         *)
(***************************************************************************)
\* The distinct r,g,b of the pixels of the decoded image with alpha >= 128.
DistinctOpaqueOfImg ==
  {<<img.pixels[k][1], img.pixels[k][2], img.pixels[k][3]>> :
     k \in {j \in 1..Len(img.pixels) : img.pixels[j][4] >= OpaqueAlpha}}

\* The conversion has settled, the image was decoded, it has no more distinct
\* opaque colours than numColors, the noise size is at most 1, no inversion
\* flag is set and no layer threw.
FewColorsNoNoise ==
  /\ Terminal
  /\ ~DecodeFailed
  /\ Cardinality(DistinctOpaqueOfImg) <= settings.numColors
  /\ settings.turdSize <= 1
  /\ \A k \in 1..Len(settings.colorInversions) : ~settings.colorInversions[k]
  /\ threw = {}

\* The conversion resolved with one layer per palette entry, in order, and
\* the mask of every palette colour has a foreground pixel.
OneLayerPerEntry ==
  /\ pc = "resolved"
  /\ Len(result.layers) = Len(result.palette.colors)
  /\ \A k \in 1..Len(result.palette.colors) :
       /\ result.layers[k].color = result.palette.colors[k]
       /\ \E j \in 1..Len(img.pixels) :
            CapturedMaskBits(result.palette.colors[k], FALSE)[j] = 1

None == <<>>
Some(v) == <<v>>

\* value || fallback for an optional array: an array, even an empty one, is truthy.
OrElse(opt, fallback) == IF opt = None THEN fallback ELSE opt[1]

RECURSIVE GCD(_, _)
GCD(a, b) == IF b = 0 THEN a ELSE GCD(b, a % b)

Abs(n) == IF n < 0 THEN -n ELSE n

\* num/den, den > 0, in lowest terms.
Ratio(num, den) ==
  LET g == GCD(Abs(num), den)
  IN Finite(num \div g, den \div g)

\* x * k for an integer k.
JsTimes(x, k) ==
  CASE x.kind = "finite" -> Ratio(x.num * k, x.den)
    [] x.kind = "NaN" -> NaN
    [] OTHER -> IF k = 0 THEN NaN
                ELSE IF (k > 0) = (x.kind = "Infinity") THEN Infinity ELSE NegInfinity

\* x + t for an integer t.
JsPlus(x, t) ==
  IF x.kind = "finite" THEN Ratio(x.num + t * x.den, x.den) ELSE x

\* x / n for an integer n: a division by zero gives Infinity, -Infinity or NaN.
JsOver(x, n) ==
  CASE x.kind = "finite" ->
         IF n = 0
         THEN (IF x.num > 0 THEN Infinity ELSE IF x.num < 0 THEN NegInfinity ELSE NaN)
         ELSE Ratio((IF n < 0 THEN -1 ELSE 1) * x.num, x.den * Abs(n))
    [] x.kind = "NaN" -> NaN
    [] OTHER -> IF (n >= 0) = (x.kind = "Infinity") THEN Infinity ELSE NegInfinity

\* const copy = [...arr]; copy[index] = value; index counted from 0, the
\* cells between the old end and index are holes.
ArraySet(arr, index, value) ==
  [k \in 1..Max(Len(arr), index + 1) |->
     IF k = index + 1 THEN Some(value)
     ELSE IF k <= Len(arr) THEN arr[k] ELSE None]

\* new Array(n).fill(false)
FilledArray(n) == [k \in 1..n |-> Some(FALSE)]

\* Bounds of the hook: images in the list, processImage calls in a run, and
\* the largest colour index toggled.
MaxImages == 1
MaxCalls == 2
MaxColorIndex == 0

\* The step and the cap of the simulated progress.
ProgressStep == 10
ProgressCap == 90
ProgressDone == 100

\* What a conversion can settle with, and how long it took (Date.now() - startTime).
PaletteLengthsTried == {1, 2}
SvgSizesTried == {300}
TimesTried == {0, 200}

\* crypto.randomUUID(): an id no image and no call holds.
FreshId ==
  LET used == {images[k].id : k \in 1..Len(images)} \cup {calls[c].imageId : c \in 1..Len(calls)}
  IN CHOOSE n \in 1..(Cardinality(used) + 1) : n \notin used

InitHook ==
  /\ Idle
  /\ pc = "hook"
  /\ call = NoCall
  /\ imageData = NoImageData
  /\ palette = NoPalette
  /\ mask = NoImageData
  /\ bitmap = <<>>
  /\ pathStrings = <<>>

\* addImages with one valid file whose dimensions load.
AddImages ==
  /\ Len(images) < MaxImages
  /\ images' = Append(images, [id |-> FreshId, status |-> "pending", progress |-> None,
                               svgSize |-> None, paletteLength |-> None,
                               inversions |-> None])
  /\ stats' = [stats EXCEPT !.totalImages = @ + 1]
  /\ UNCHANGED <<pipelineVars, calls, successTimes>>

\* processImage up to its await: the image is found, marked as processing,
\* the progress interval is started and the conversion is called with the
\* inversions of the image the callback closed over.
ProcessImage ==
  /\ Len(calls) < MaxCalls
  /\ \E k \in 1..Len(images) :
       /\ images' = [j \in 1..Len(images) |->
                     IF images[j].id = images[k].id
                     THEN [images[j] EXCEPT !.status = "processing", !.progress = Some(0)]
                     ELSE images[j]]
       /\ calls' = Append(calls, [imageId |-> images[k].id,
                                  inversions |-> images[k].inversions,
                                  colorInversions |-> OrElse(images[k].inversions, <<>>),
                                  interval |-> "running",
                                  state |-> "awaiting",
                                  toggled |-> None])
  /\ UNCHANGED <<pipelineVars, stats, successTimes>>

\* A tick of the progress interval of call c.
ProgressTick ==
  \E c \in 1..Len(calls) :
    /\ calls[c].interval = "running"
    /\ images' = [j \in 1..Len(images) |->
                     IF images[j].id = calls[c].imageId
                     THEN [images[j] EXCEPT !.progress =
                             Some(Min(OrElse(images[j].progress, 0) + ProgressStep,
                                      ProgressCap))]
                     ELSE images[j]]
    /\ UNCHANGED <<pipelineVars, stats, calls, successTimes>>

\* The conversion of call c resolved: the rest of the try block.
ConversionResolved ==
  \E c \in 1..Len(calls), n \in PaletteLengthsTried, svgSize \in SvgSizesTried,
     processingTime \in TimesTried :
    /\ calls[c].state = "awaiting"
    /\ calls' = [calls EXCEPT ![c].interval = "cleared", ![c].state = "resolved"]
    /\ images' = [j \in 1..Len(images) |->
                     IF images[j].id = calls[c].imageId
                     THEN [images[j] EXCEPT
                             !.status = "processed",
                             !.progress = Some(ProgressDone),
                             !.svgSize = Some(svgSize),
                             !.paletteLength = Some(n),
                             !.inversions = Some(OrElse(calls[c].inversions,
                                                        FilledArray(n)))]
                     ELSE images[j]]
    /\ stats' = [stats EXCEPT
                   !.processedImages = @ + 1,
                   !.averageTime =
                      JsOver(JsPlus(JsTimes(stats.averageTime, stats.processedImages - 1),
                                    processingTime),
                             stats.processedImages),
                   !.memoryUsage = @ + svgSize]
    /\ successTimes' = Append(successTimes, processingTime)
    /\ UNCHANGED pipelineVars

\* The conversion of call c rejected: the catch block.
ConversionRejected ==
  \E c \in 1..Len(calls) :
    /\ calls[c].state = "awaiting"
    /\ calls' = [calls EXCEPT ![c].state = "rejected"]
    /\ images' = [j \in 1..Len(images) |->
                     IF images[j].id = calls[c].imageId
                     THEN [images[j] EXCEPT !.status = "error", !.progress = Some(0)]
                     ELSE images[j]]
    /\ UNCHANGED <<pipelineVars, stats, successTimes>>

\* updateColorInversion(imageId, colorIndex, inverted)
UpdateColorInversion ==
  \E k \in 1..Len(images), colorIndex \in 0..MaxColorIndex, inverted \in BOOLEAN :
    /\ images' = [j \in 1..Len(images) |->
                     IF images[j].id = images[k].id
                     THEN [images[j] EXCEPT !.inversions =
                             Some(ArraySet(OrElse(images[j].inversions, <<>>),
                                           colorIndex, inverted))]
                     ELSE images[j]]
    /\ calls' = [c \in 1..Len(calls) |->
                   IF calls[c].state = "awaiting" /\ calls[c].imageId = images[k].id
                   THEN [calls[c] EXCEPT !.toggled = Some([colorIndex |-> colorIndex,
                                                           inverted |-> inverted])]
                   ELSE calls[c]]
    /\ UNCHANGED <<pipelineVars, stats, successTimes>>

\* clearAllImages: the calls in flight and their intervals are left alone.
ClearAllImages ==
  /\ images' = <<>>
  /\ stats' = NoStats
  /\ successTimes' = <<>>
  /\ UNCHANGED <<pipelineVars, calls>>

NextHook ==
  \/ AddImages
  \/ ProcessImage
  \/ ProgressTick
  \/ ConversionResolved
  \/ ConversionRejected
  \/ UpdateColorInversion
  \/ ClearAllImages

SpecHook == InitHook /\ [][NextHook]_vars

(***************************************************************************)
(* The progress timer, the inversions and the statistics of the hook.      *)
(***************************************************************************)
\* Some processImage call for the image of this id has not settled.
InFlight(imageId) ==
  \E c \in 1..Len(calls) : calls[c].imageId = imageId /\ calls[c].state = "awaiting"

\* C28 as stated: the progress interval of every settled processImage call is
\* cancelled, whether the conversion resolved or rejected; so an image with
\* no call in flight has progress 0 in status 'error' and progress 100 in
\* status 'processed'.
C28_AsStated ==
  /\ \A c \in 1..Len(calls) :
       calls[c].state # "awaiting" => calls[c].interval = "cleared"
  /\ \A k \in 1..Len(images) :
       ~InFlight(images[k].id) =>
         /\ images[k].status = "error" => images[k].progress = Some(0)
         /\ images[k].status = "processed" => images[k].progress = Some(ProgressDone)

\* The interval of a call whose conversion rejected has ticked: the image is
\* in status 'error', no call is in flight, and its progress is not 0.
C28_ErrorImageProgresses ==
  \E k \in 1..Len(images) :
    /\ images[k].status = "error"
    /\ ~InFlight(images[k].id)
    /\ images[k].progress = Some(ProgressCap)

\* C29 as stated: when the conversion of a call resolves, the toggle that
\* updateColorInversion applied last to its image while the call was in
\* flight is still in the image's inversions.
C29_AsStated ==
  [][\A c \in 1..Len(calls) :
       calls[c].state = "awaiting" /\ calls'[c].state = "resolved"
         /\ calls[c].toggled # None =>
         \A k \in 1..Len(images) :
           images[k].id = calls[c].imageId =>
             LET toggle == calls[c].toggled[1]
             IN /\ images'[k].inversions # None
                /\ toggle.colorIndex + 1 <= Len(images'[k].inversions[1])
                /\ images'[k].inversions[1][toggle.colorIndex + 1]
                     = Some(toggle.inverted)]_vars

\* C30 as stated: stats.processedImages is the number of successful
\* conversions since the last clearAllImages, and after the first of them
\* stats.averageTime is a finite number, the arithmetic mean of their
\* processing times.
C30_AsStated ==
  /\ stats.processedImages = Len(successTimes)
  /\ successTimes # <<>> =>
       stats.averageTime = Ratio(SumSeq(successTimes), Len(successTimes))

==============================================================================
